---- MODULE Spec2Model ----
(***************************************************************************)
(* rustmap-db: file-backed HashMap / HashSet collections sharing one       *)
(* append-only log file.  The log is modelled as the byte sequence of the  *)
(* file; records are bincode encodings of DBEntry; every collection handle *)
(* keeps its own in-memory index and spawns durability tasks that append   *)
(* to the file under the file mutex.                                       *)
(***************************************************************************)
EXTENDS Integers, Sequences, FiniteSets, TLC

VARIABLES
    file,    \* bytes of the shared log file (Arc<Mutex<File>>)
    ctor,    \* per handle: the Database method that opened it
    name,    \* per handle: the textual name given to the Database method
    id,      \* per handle: the `id` field of the structure
    inner,   \* per handle: the DashMap / DashSet contents
    tasks,   \* spawned durability tasks that have not run yet, in spawn order
    ret,     \* what the last step gave a caller, with the handle concerned:
             \* the value of a call that returned one and no JoinHandle, or
             \* what the JoinHandle of the task that ran resolved to
    calls,   \* number of calls made on the handles so far
    lock     \* the activities inside lock_file(..) .. drop(guard) on the file mutex

vars == <<file, ctor, name, id, inner, tasks, ret, calls, lock>>

-----------------------------------------------------------------------------
(* Bounds of the model *)

\* most calls made on the handles in one run
MaxCalls == 3
\* most durability tasks spawned and not yet run
MaxTasks == 2
\* longest batch handed to insert_batch / remove_batch
MaxBatch == 2
\* longest name, in bytes, of the runs that vary the names
MaxNameLen == 2

Slots == {1, 2}
Keys == {1}
Vals == {1, 2}
\* names are UTF-8 strings, here the one-byte strings "a" and "b"
Names == {<<97>>, <<98>>}
Ctors == {"hash_map", "hash_map_with_config", "hash_set"}
\* an order on the constructors: a run with the two handles exchanged is the
\* same run, so the initial states take the handles in this order
CtorRank(c) ==
    CASE c = "hash_map" -> 1 [] c = "hash_map_with_config" -> 2 [] c = "hash_set" -> 3

-----------------------------------------------------------------------------
(* bincode (fixint, little endian) and the identifier derivation *)

\* byte i (0 = least significant) of an unsigned 64-bit integer n < 2^24
ByteOf(n, i) == IF i > 2 THEN 0 ELSE (n \div (256 ^ i)) % 256

\* u64 / usize as bincode writes it: 8 bytes, little endian
LE64(n) == [i \in 1..8 |-> ByteOf(n, i - 1)]

\* usize::to_be_bytes on a 64-bit target
BE64(n) == [i \in 1..8 |-> ByteOf(n, 8 - i)]

\* a Vec<u8> written without its length
SerBytes_no_len(bs) == bs

\* bincode of a Vec<u8>: u64 length, then the bytes
SerBytes(bs) == LE64(Len(bs)) \o bs

\* bincode::serialize of a key or value of type u8
SerU8(x) == <<x>>

\* an identifier that keeps the length and the first byte of the name
to_raw_id_first_byte(n) == BE64(Len(n)) \o (IF n = <<>> THEN <<>> ELSE <<n[1]>>)

\* an identifier made of the length of the name alone
to_raw_id_len_only(n) == BE64(Len(n))

to_raw_id(n) == BE64(Len(n)) \o n

-----------------------------------------------------------------------------
(* DBEntry and its Serialize / Deserialize implementations *)

HashMapEntry(i, k, v) == [tag |-> 0, id |-> i, key |-> k, value |-> v]
RemoveHashMapEntry(i, k) == [tag |-> 1, id |-> i, key |-> k, value |-> <<>>]
HashSetEntry(i, k) == [tag |-> 2, id |-> i, key |-> k, value |-> <<>>]
RemoveHashSetEntry(i, k) == [tag |-> 3, id |-> i, key |-> k, value |-> <<>>]

\* an encoding that writes the key before the id
Serialize_key_first(e) ==
    <<e.tag>> \o SerBytes(e.key) \o SerBytes(e.id)
        \o (IF e.tag = 0 THEN SerBytes(e.value) ELSE <<>>)

\* impl Serialize for DBEntry: a tuple of the tag byte and the variant's fields
Serialize(e) ==
    <<e.tag>> \o SerBytes(e.id) \o SerBytes(e.key)
        \o (IF e.tag = 0 THEN SerBytes(e.value) ELSE <<>>)

\* the bytes a durability task hands to the file for its entries: the
\* records one after the other (the batch contract of the write pipeline; the
\* serialize_to_file(&entries, &file) that hashmap.rs and hashset.rs call is
\* not in the source tree, the HashMap of structures/mod.rs flattens the
\* entries' encodings in this way)
RECURSIVE SerializeAll(_)
SerializeAll(es) ==
    IF es = <<>> THEN <<>> ELSE Serialize(Head(es)) \o SerializeAll(Tail(es))

\* a u64 read at 1-based position pos; a value of 2^24 or more only ever
\* serves as a length that exceeds the buffer
ReadU64(buf, pos) ==
    IF pos + 7 > Len(buf) THEN [st |-> "eof"]
    ELSE [st |-> "ok",
          val |-> IF \E i \in 3..7 : buf[pos + i] # 0
                  THEN 256 ^ 3
                  ELSE buf[pos] + 256 * buf[pos + 1] + 65536 * buf[pos + 2],
          pos |-> pos + 8]

\* a read that hands back the bytes that are left when the input runs out
ReadBytes_short(buf, pos) ==
    LET n == ReadU64(buf, pos) IN
    IF n.st # "ok" THEN [st |-> "eof"]
    ELSE IF n.pos + n.val - 1 > Len(buf)
         THEN [st |-> "ok", val |-> SubSeq(buf, n.pos, Len(buf)), pos |-> Len(buf) + 1]
    ELSE [st |-> "ok",
          val |-> SubSeq(buf, n.pos, n.pos + n.val - 1),
          pos |-> n.pos + n.val]

\* a Vec<u8> read at pos: running out of input is an UnexpectedEof I/O error
ReadBytes(buf, pos) ==
    LET n == ReadU64(buf, pos) IN
    IF n.st # "ok" THEN [st |-> "eof"]
    ELSE IF n.pos + n.val - 1 > Len(buf) THEN [st |-> "eof"]
    ELSE [st |-> "ok",
          val |-> SubSeq(buf, n.pos, n.pos + n.val - 1),
          pos |-> n.pos + n.val]

\* bincode::deserialize_from::<_, DBEntry>(&mut cursor) with the cursor at pos:
\* "ok" with the entry and the new position, "eof" for ErrorKind::Io(UnexpectedEof),
\* "invalid" for the visitor's invalid_value error on an unknown tag
deserialize_from(buf, pos) ==
    IF pos > Len(buf) THEN [st |-> "eof"]
    ELSE IF buf[pos] \notin 0..3 THEN [st |-> "invalid"]
    ELSE LET i == ReadBytes(buf, pos + 1) IN
         IF i.st # "ok" THEN [st |-> "eof"]
         ELSE LET k == ReadBytes(buf, i.pos) IN
              IF k.st # "ok" THEN [st |-> "eof"]
              ELSE IF buf[pos] # 0
                   THEN [st |-> "ok", pos |-> k.pos,
                         entry |-> [tag |-> buf[pos], id |-> i.val,
                                    key |-> k.val, value |-> <<>>]]
                   ELSE LET v == ReadBytes(buf, k.pos) IN
                        IF v.st # "ok" THEN [st |-> "eof"]
                        ELSE [st |-> "ok", pos |-> v.pos,
                              entry |-> HashMapEntry(i.val, k.val, v.val)]

\* the entries a scan that stops at the first error reads from position pos
RECURSIVE ReadEntries(_, _)
ReadEntries(buf, pos) ==
    LET r == deserialize_from(buf, pos) IN
    IF r.st # "ok" THEN <<>> ELSE <<r.entry>> \o ReadEntries(buf, r.pos)

-----------------------------------------------------------------------------
(* The in-memory index: DashMap<K, V>, and DashSet<K> = DashMap<K, ()> *)

EmptyMap == [k \in {} |-> 0]
\* the () stored for every member of a DashSet
Unit == <<>>

\* DashMap::insert returns the previous value
MapPut(m, k, v) == [x \in (DOMAIN m) \cup {k} |-> IF x = k THEN v ELSE m[x]]

\* a remove that leaves the entry in the index
MapDel_keeps(m, k) == m

\* DashMap::remove
MapDel(m, k) == [x \in (DOMAIN m) \ {k} |-> m[x]]

\* a get that finds nothing
MapGet_none(m, k) == <<>>

\* DashMap::get, cloned: Some(v) is <<v>>, None is <<>>
MapGet(m, k) == IF k \in DOMAIN m THEN <<m[k]>> ELSE <<>>

-----------------------------------------------------------------------------
(* Opening a collection: identifier and replay *)

\* HashMap::new stores the bincode serialization of the id it is given
HashMap_new_id(raw) == SerBytes(raw)
\* HashMap::with_config stores the id it is given
HashMap_with_config_id(raw) == raw
\* HashSet::new stores the id it is given
HashSet_new_id(raw) == raw

\* Database::hash_map(name): HashMap::new(file, to_raw_id(name))
Database_hash_map(n) == HashMap_new_id(to_raw_id(n))
\* Database::hash_map_with_config(name, config):
\* HashMap::with_config(file, to_raw_id(name), config)
Database_hash_map_with_config(n) == HashMap_with_config_id(to_raw_id(n))
\* Database::hash_set(name), which the tests call and src/db/mod.rs does not
\* hold: as the spec has it, the same derivation, HashSet::new(file, to_raw_id(name))
Database_hash_set(n) == HashSet_new_id(to_raw_id(n))

\* the CollectionId of the handle that constructor c opens for the name n
IdOf(c, n) ==
    CASE c = "hash_map" -> Database_hash_map(n)
      [] c = "hash_map_with_config" -> Database_hash_map_with_config(n)
      [] c = "hash_set" -> Database_hash_set(n)

KindOf(c) == IF c = "hash_set" THEN "set" ELSE "map"

\* HashMap::load_from_file from cursor position pos on, with m loaded so far
RECURSIVE HashMap_load_from_file(_, _, _, _)
HashMap_load_from_file(buf, pos, self_id, m) ==
    IF pos > Len(buf) THEN [ok |-> TRUE, inner |-> m]
    ELSE LET r == deserialize_from(buf, pos) IN
         CASE r.st = "eof" -> [ok |-> TRUE, inner |-> m]
           [] r.st = "invalid" -> [ok |-> FALSE, inner |-> m]
           [] r.st = "ok" ->
                LET e == r.entry IN
                IF e.tag \in {0, 1} /\ e.id = self_id
                THEN IF e.key = <<>> \/ (e.tag = 0 /\ e.value = <<>>)
                     THEN [ok |-> FALSE, inner |-> m]
                     ELSE HashMap_load_from_file(buf, r.pos, self_id,
                              IF e.tag = 0 THEN MapPut(m, e.key[1], e.value[1])
                                           ELSE MapDel(m, e.key[1]))
                ELSE HashMap_load_from_file(buf, r.pos, self_id, m)

\* HashSet::load_from_file from cursor position pos on, with m loaded so far
RECURSIVE HashSet_load_from_file(_, _, _, _)
HashSet_load_from_file(buf, pos, self_id, m) ==
    IF pos > Len(buf) THEN [ok |-> TRUE, inner |-> m]
    ELSE LET r == deserialize_from(buf, pos) IN
         CASE r.st = "eof" -> [ok |-> TRUE, inner |-> m]
           [] r.st = "invalid" -> [ok |-> FALSE, inner |-> m]
           [] r.st = "ok" ->
                LET e == r.entry IN
                IF e.tag \in {2, 3} /\ e.id = self_id
                THEN IF e.key = <<>>
                     THEN [ok |-> FALSE, inner |-> m]
                     ELSE HashSet_load_from_file(buf, r.pos, self_id,
                              IF e.tag = 2 THEN MapPut(m, e.key[1], Unit)
                                           ELSE MapDel(m, e.key[1]))
                ELSE HashSet_load_from_file(buf, r.pos, self_id, m)

\* a load that returns Ok whatever the scan met
Load_lenient(buf, kind, self_id) ==
    [ok |-> TRUE,
     inner |-> IF kind = "map" THEN HashMap_load_from_file(buf, 1, self_id, EmptyMap).inner
                               ELSE HashSet_load_from_file(buf, 1, self_id, EmptyMap).inner]

\* what a fresh handle of the given kind and id loads from the bytes buf
Load(buf, kind, self_id) ==
    IF kind = "map" THEN HashMap_load_from_file(buf, 1, self_id, EmptyMap)
                    ELSE HashSet_load_from_file(buf, 1, self_id, EmptyMap)

-----------------------------------------------------------------------------
(* The file under its mutex *)

\* a write at the start of the file, as without the seek to the end
serialize_to_file_no_seek(f, data) ==
    data \o SubSeq(f, Len(data) + 1, Len(f))

\* serialize_to_file: lock, seek to the end, write all of data, flush
serialize_to_file(f, data) == f \o data

\* a clear that truncates the file and writes nothing back
HashMap_clear_file_truncate(f, self_id) == <<>>

\* a clear whose rewrite loses the last of the entries it keeps
HashMap_clear_file_drop_last(f, self_id) ==
    LET kept == SelectSeq(ReadEntries(f, 1),
                          LAMBDA e : ~(e.tag \in {0, 1} /\ e.id = self_id))
    IN  SerializeAll(SubSeq(kept, 1, Len(kept) - 1))

\* HashMap::clear, the part under the file lock: keep every entry that is not
\* a HashMapEntry / RemoveHashMapEntry of this id, and rewrite the file
HashMap_clear_file(f, self_id) ==
    SerializeAll(SelectSeq(ReadEntries(f, 1),
                           LAMBDA e : ~(e.tag \in {0, 1} /\ e.id = self_id)))

\* a clear that keeps nothing but the set entries of other ids
HashSet_clear_file_own_kind(f, self_id) ==
    SerializeAll(SelectSeq(ReadEntries(f, 1),
                           LAMBDA e : e.tag \in {2, 3} /\ e.id # self_id))

\* HashSet::clear, the part under the file lock: keep every entry that is not
\* a HashSetEntry / RemoveHashSetEntry of this id, and rewrite the file
HashSet_clear_file(f, self_id) ==
    SerializeAll(SelectSeq(ReadEntries(f, 1),
                           LAMBDA e : ~(e.tag \in {2, 3} /\ e.id = self_id)))

-----------------------------------------------------------------------------
(* The synchronous part of the batch operations *)

\* an insert_batch that inserts the first pair only
MapInsertAll_head_only(m, es) ==
    IF es = <<>> THEN [inner |-> m, old |-> <<>>]
    ELSE [inner |-> MapPut(m, Head(es)[1], Head(es)[2]),
          old |-> [i \in 1..Len(es) |-> MapGet(m, es[i][1])]]

\* an insert_batch that reads every old value from the map as it was before
\* the batch
MapInsertAll_old_at_call(m, es) ==
    [inner |-> [x \in (DOMAIN m) \cup {es[i][1] : i \in 1..Len(es)} |->
                  IF \E i \in 1..Len(es) : es[i][1] = x
                  THEN es[CHOOSE i \in 1..Len(es) :
                             es[i][1] = x /\ \A j \in (i + 1)..Len(es) : es[j][1] # x][2]
                  ELSE m[x]],
     old |-> [i \in 1..Len(es) |-> MapGet(m, es[i][1])]]

\* HashMap::insert_batch: insert every pair in input order, collecting the old values
RECURSIVE MapInsertAll(_, _)
MapInsertAll(m, es) ==
    IF es = <<>> THEN [inner |-> m, old |-> <<>>]
    ELSE LET rest == MapInsertAll(MapPut(m, Head(es)[1], Head(es)[2]), Tail(es)) IN
         [inner |-> rest.inner, old |-> <<MapGet(m, Head(es)[1])>> \o rest.old]

\* HashSet::insert_batch: DashSet::insert returns whether the key was new
RECURSIVE SetInsertAll(_, _)
SetInsertAll(m, ks) ==
    IF ks = <<>> THEN [inner |-> m, old |-> <<>>]
    ELSE LET rest == SetInsertAll(MapPut(m, Head(ks), Unit), Tail(ks)) IN
         [inner |-> rest.inner, old |-> <<Head(ks) \notin DOMAIN m>> \o rest.old]

\* remove_batch: remove every key in input order, collecting what was removed
RECURSIVE RemoveAll(_, _)
RemoveAll(m, ks) ==
    IF ks = <<>> THEN [inner |-> m, removed |-> <<>>]
    ELSE LET rest == RemoveAll(MapDel(m, Head(ks)), Tail(ks)) IN
         [inner |-> rest.inner,
          removed |-> (IF Head(ks) \in DOMAIN m
                       THEN <<<<Head(ks), m[Head(ks)]>>>> ELSE <<>>) \o rest.removed]

\* the entries the task of HashMap::insert_batch serializes
MapBatchEntries(self_id, es) ==
    [i \in 1..Len(es) |-> HashMapEntry(self_id, SerU8(es[i][1]), SerU8(es[i][2]))]

\* the entries the task of HashSet::insert_batch serializes
SetBatchEntries(self_id, ks) ==
    [i \in 1..Len(ks) |-> HashSetEntry(self_id, SerU8(ks[i]))]

\* HashMap::remove_batch writing the removal entries of the other kind
MapRemoveBatchEntries_set_kind(self_id, removed) ==
    [i \in 1..Len(removed) |-> RemoveHashSetEntry(self_id, SerU8(removed[i][1]))]

\* the entries the task of HashMap::remove_batch serializes
MapRemoveBatchEntries(self_id, removed) ==
    [i \in 1..Len(removed) |-> RemoveHashMapEntry(self_id, SerU8(removed[i][1]))]

\* the entries the task of HashSet::remove_batch serializes
SetRemoveBatchEntries(self_id, removed) ==
    [i \in 1..Len(removed) |-> RemoveHashMapEntry(self_id, SerU8(removed[i][1]))]

-----------------------------------------------------------------------------
(* State machine *)

Kind(h) == KindOf(ctor[h])

\* one more call may be made
Call == calls < MaxCalls /\ calls' = calls + 1

Batches(S) == UNION {[1..n -> S] : n \in 1..MaxBatch}

\* what a resolved JoinHandle yields: the values (old values, removed pairs or
\* keys; an Option as a sequence of at most one) or the was-new flags of a
\* HashSet insert
Returned(values, inserted) == [values |-> values, inserted |-> inserted]

\* tokio::spawn of a durability task of handle h
Spawn(h, entries, result) ==
    /\ Len(tasks) < MaxTasks
    /\ tasks' = Append(tasks, [h |-> h, entries |-> entries, result |-> result])

Init ==
    /\ file = <<>>
    /\ ctor \in [Slots -> Ctors]
    /\ name \in [Slots -> Names]
    /\ name[1] = <<97>>
    /\ CtorRank(ctor[1]) <= CtorRank(ctor[2])
    /\ id = [h \in Slots |-> IdOf(ctor[h], name[h])]
    /\ inner = [h \in Slots |-> EmptyMap]
    /\ tasks = <<>>
    /\ ret = <<>>
    /\ calls = 0
    /\ lock = {}

\* drop the handle and open the collection again: load_from_file
Open(h) ==
    LET l == Load(file, Kind(h), id[h]) IN
    /\ Call
    /\ inner' = [inner EXCEPT ![h] = IF l.ok THEN l.inner ELSE EmptyMap]
    /\ ret' = IF l.ok THEN <<>> ELSE <<h, "open_err">>
    /\ UNCHANGED <<file, ctor, name, id, tasks, lock>>

\* an insert into an index shared by every handle of the collection
HashMap_insert_shared(h, k, v) ==
    /\ Kind(h) = "map"
    /\ Call
    /\ inner' = [g \in Slots |-> IF Kind(g) = "map" /\ id[g] = id[h]
                                   THEN MapPut(inner[g], k, v) ELSE inner[g]]
    /\ Spawn(h,
             <<HashMapEntry(id[h], SerU8(k), SerU8(v))>>,
             Returned(<<MapGet(inner[h], k)>>, <<>>))
    /\ ret' = <<>>
    /\ UNCHANGED <<file, ctor, name, id, lock>>

HashMap_insert(h, k, v) ==
    /\ Kind(h) = "map"
    /\ Call
    /\ inner' = [inner EXCEPT ![h] = MapPut(@, k, v)]
    /\ Spawn(h,
             <<HashMapEntry(id[h], SerU8(k), SerU8(v))>>,
             Returned(<<MapGet(inner[h], k)>>, <<>>))
    /\ ret' = <<>>
    /\ UNCHANGED <<file, ctor, name, id, lock>>

HashMap_insert_batch(h, es) ==
    /\ Kind(h) = "map"
    /\ Call
    /\ inner' = [inner EXCEPT ![h] = MapInsertAll(@, es).inner]
    /\ Spawn(h,
             MapBatchEntries(id[h], es),
             Returned(MapInsertAll(inner[h], es).old, <<>>))
    /\ ret' = <<>>
    /\ UNCHANGED <<file, ctor, name, id, lock>>

\* a remove that schedules its record whether or not the key is there
HashMap_remove_always_spawns(h, k) ==
    /\ Kind(h) = "map"
    /\ Call
    /\ inner' = [inner EXCEPT ![h] = MapDel(@, k)]
    /\ Spawn(h,
             <<RemoveHashMapEntry(id[h], SerU8(k))>>,
             Returned(<<MapGet(inner[h], k)>>, <<>>))
    /\ ret' = <<>>
    /\ UNCHANGED <<file, ctor, name, id, lock>>

HashMap_remove(h, k) ==
    /\ Kind(h) = "map"
    /\ Call
    /\ IF k \in DOMAIN inner[h]
       THEN /\ inner' = [inner EXCEPT ![h] = MapDel(@, k)]
            /\ Spawn(h,
                     <<RemoveHashMapEntry(id[h], SerU8(k))>>,
                     Returned(<<<<inner[h][k]>>>>, <<>>))
            /\ ret' = <<>>
       ELSE /\ ret' = <<h, "none">>
            /\ UNCHANGED <<inner, tasks, lock>>
    /\ UNCHANGED <<file, ctor, name, id, lock>>

HashMap_remove_batch(h, ks) ==
    /\ Kind(h) = "map"
    /\ Call
    /\ LET r == RemoveAll(inner[h], ks) IN
          /\ inner' = [inner EXCEPT ![h] = r.inner]
       /\ Spawn(h,
                MapRemoveBatchEntries(id[h], r.removed),
                Returned(r.removed, <<>>))
    /\ ret' = <<>>
    /\ UNCHANGED <<file, ctor, name, id, lock>>

HashMap_clear(h) ==
    /\ Kind(h) = "map"
    /\ Call
    /\ inner' = [inner EXCEPT ![h] = EmptyMap]
    /\ file' = HashMap_clear_file(file, id[h])
    /\ ret' = <<h, "cleared">>
    /\ UNCHANGED <<ctor, name, id, tasks, lock>>

\* an insert that reports whether the key was there, not whether it was new
HashSet_insert_was_present(h, k) ==
    /\ Kind(h) = "set"
    /\ Call
    /\ inner' = [inner EXCEPT ![h] = MapPut(@, k, Unit)]
    /\ Spawn(h,
             <<HashSetEntry(id[h], SerU8(k))>>,
             Returned(<<>>, <<k \in DOMAIN inner[h]>>))
    /\ ret' = <<>>
    /\ UNCHANGED <<file, ctor, name, id, lock>>

HashSet_insert(h, k) ==
    /\ Kind(h) = "set"
    /\ Call
    /\ inner' = [inner EXCEPT ![h] = MapPut(@, k, Unit)]
    /\ Spawn(h,
             <<HashSetEntry(id[h], SerU8(k))>>,
             Returned(<<>>, <<k \notin DOMAIN inner[h]>>))
    /\ ret' = <<>>
    /\ UNCHANGED <<file, ctor, name, id, lock>>

HashSet_insert_batch(h, ks) ==
    /\ Kind(h) = "set"
    /\ Call
    /\ inner' = [inner EXCEPT ![h] = SetInsertAll(@, ks).inner]
    /\ Spawn(h,
             SetBatchEntries(id[h], ks),
             Returned(<<>>, SetInsertAll(inner[h], ks).old))
    /\ ret' = <<>>
    /\ UNCHANGED <<file, ctor, name, id, lock>>

HashSet_remove(h, k) ==
    /\ Kind(h) = "set"
    /\ Call
    /\ IF k \in DOMAIN inner[h]
       THEN /\ inner' = [inner EXCEPT ![h] = MapDel(@, k)]
            /\ Spawn(h,
                     <<RemoveHashSetEntry(id[h], SerU8(k))>>,
                     Returned(<<<<k>>>>, <<>>))
            /\ ret' = <<>>
       ELSE /\ ret' = <<h, "none">>
            /\ UNCHANGED <<inner, tasks, lock>>
    /\ UNCHANGED <<file, ctor, name, id, lock>>

HashSet_remove_batch(h, ks) ==
    /\ Kind(h) = "set"
    /\ Call
    /\ LET r == RemoveAll(inner[h], ks) IN
          /\ inner' = [inner EXCEPT ![h] = r.inner]
       /\ Spawn(h,
                SetRemoveBatchEntries(id[h], r.removed),
                Returned([i \in 1..Len(r.removed) |-> <<r.removed[i][1]>>], <<>>))
    /\ ret' = <<>>
    /\ UNCHANGED <<file, ctor, name, id, lock>>

HashSet_clear(h) ==
    /\ Kind(h) = "set"
    /\ Call
    /\ inner' = [inner EXCEPT ![h] = EmptyMap]
    /\ file' = HashSet_clear_file(file, id[h])
    /\ ret' = <<h, "cleared">>
    /\ UNCHANGED <<ctor, name, id, tasks, lock>>

\* the runtime runs the i-th pending task: its entries go to the file in one
\* serialize_to_file call, and the task is done
\* a task that is dropped with its JoinHandle: it leaves without appending
RunTask_cancelled(i) ==
    /\ i \in 1..Len(tasks)
    /\ tasks' = SubSeq(tasks, 1, i - 1) \o SubSeq(tasks, i + 1, Len(tasks))
    /\ ret' = <<tasks[i].h, "cancelled">>
    /\ UNCHANGED <<file, ctor, name, id, inner, calls, lock>>

RunTask(i) ==
    /\ i \in 1..Len(tasks)
    /\ file' = serialize_to_file(file, SerializeAll(tasks[i].entries))
    /\ tasks' = SubSeq(tasks, 1, i - 1) \o SubSeq(tasks, i + 1, Len(tasks))
    /\ ret' = <<tasks[i].h, "ok", tasks[i].result>>
    /\ UNCHANGED <<ctor, name, id, inner, calls, lock>>

\* the variants of StructureError a durability task can end with
TaskErrors == {"IoError", "BinCodeError", "MutexLockError"}

\* how many bytes of the task's data a failing task may have put in the file:
\* none when bincode::serialize, lock_file or seek fails; when write_all
\* fails, any proper prefix (of these the model takes none, one byte, every
\* whole number of records, and all but one byte)
TornWrites(err, entries) ==
    IF err # "IoError" THEN {0}
    ELSE {n \in {0, 1, Len(SerializeAll(entries)) - 1}
                    \cup {Len(SerializeAll(SubSeq(entries, 1, j))) :
                             j \in 1..Len(entries)} :
             n >= 0 /\ (n = 0 \/ n < Len(SerializeAll(entries)))}

\* a failing task that also puts the handle's memory back to what the log holds
FailTask_rollback(i, err, n) ==
    /\ i \in 1..Len(tasks)
    /\ n \in TornWrites(err, tasks[i].entries)
    /\ file' = serialize_to_file(file,
                    SubSeq(SerializeAll(tasks[i].entries), 1, n))
    /\ tasks' = SubSeq(tasks, 1, i - 1) \o SubSeq(tasks, i + 1, Len(tasks))
    /\ inner' = [inner EXCEPT ![tasks[i].h] = EmptyMap]
    /\ ret' = <<tasks[i].h, err>>
    /\ UNCHANGED <<ctor, name, id, calls, lock>>

\* the i-th pending task fails with err after n bytes of its data have
\* reached the file: the `?` in the async block and in serialize_to_file
\* returns the error, and nothing in memory or in the file is undone
FailTask(i, err, n) ==
    /\ i \in 1..Len(tasks)
    /\ n \in TornWrites(err, tasks[i].entries)
    /\ file' = serialize_to_file(file,
                    SubSeq(SerializeAll(tasks[i].entries), 1, n))
    /\ tasks' = SubSeq(tasks, 1, i - 1) \o SubSeq(tasks, i + 1, Len(tasks))
    /\ ret' = <<tasks[i].h, err>>
    /\ UNCHANGED <<ctor, name, id, inner, calls, lock>>

\* a call on a handle
Calls ==
    \/ \E h \in Slots : Open(h)
    \/ \E h \in Slots, k \in Keys, v \in Vals : HashMap_insert(h, k, v)
    \/ \E h \in Slots, es \in Batches(Keys \X Vals) : HashMap_insert_batch(h, es)
    \/ \E h \in Slots, k \in Keys : HashMap_remove(h, k)
    \/ \E h \in Slots, ks \in Batches(Keys) : HashMap_remove_batch(h, ks)
    \/ \E h \in Slots : HashMap_clear(h)
    \/ \E h \in Slots, k \in Keys : HashSet_insert(h, k)
    \/ \E h \in Slots, ks \in Batches(Keys) : HashSet_insert_batch(h, ks)
    \/ \E h \in Slots, k \in Keys : HashSet_remove(h, k)
    \/ \E h \in Slots, ks \in Batches(Keys) : HashSet_remove_batch(h, ks)
    \/ \E h \in Slots : HashSet_clear(h)

\* callers that may go on without awaiting the JoinHandles; the runtime runs
\* the spawned tasks in any order
Next ==
    \/ Calls
    \/ \E i \in 1..MaxTasks : RunTask(i)

Spec == Init /\ [][Next]_vars

\* callers that await every JoinHandle before they make the next call
NextAwait ==
    \/ \E h \in Slots : tasks = <<>> /\ Open(h)
    \/ \E h \in Slots, k \in Keys, v \in Vals :
          tasks = <<>> /\ HashMap_insert(h, k, v)
    \/ \E h \in Slots, es \in Batches(Keys \X Vals) :
          tasks = <<>> /\ HashMap_insert_batch(h, es)
    \/ \E h \in Slots, k \in Keys : tasks = <<>> /\ HashMap_remove(h, k)
    \/ \E h \in Slots, ks \in Batches(Keys) :
          tasks = <<>> /\ HashMap_remove_batch(h, ks)
    \/ \E h \in Slots : tasks = <<>> /\ HashMap_clear(h)
    \/ \E h \in Slots, k \in Keys : tasks = <<>> /\ HashSet_insert(h, k)
    \/ \E h \in Slots, ks \in Batches(Keys) :
          tasks = <<>> /\ HashSet_insert_batch(h, ks)
    \/ \E h \in Slots, k \in Keys : tasks = <<>> /\ HashSet_remove(h, k)
    \/ \E h \in Slots, ks \in Batches(Keys) :
          tasks = <<>> /\ HashSet_remove_batch(h, ks)
    \/ \E h \in Slots : tasks = <<>> /\ HashSet_clear(h)
    \/ RunTask(1)

SpecAwait == Init /\ [][NextAwait]_vars

\* durability tasks may fail: I/O errors, codec errors, a poisoned file mutex
\* The runtime polls every spawned task: tokio::spawn hands the task to the
\* scheduler whether or not its JoinHandle is kept, and the file mutex is
\* released by every holder, so a pending task is not postponed forever.
SpecFair == Spec /\ WF_vars(\E i \in 1..MaxTasks : RunTask(i))

NextFail ==
    \/ Calls
    \/ \E i \in 1..MaxTasks : RunTask(i)
    \/ \E i \in 1..Len(tasks), err \in TaskErrors :
          \E n \in TornWrites(err, tasks[i].entries) : FailTask(i, err, n)

\* one Map and one Set on the file, of different names
InitFail ==
    /\ Init
    /\ ctor = [h \in Slots |-> IF h = 1 THEN "hash_map_with_config" ELSE "hash_set"]
    /\ name[1] # name[2]

SpecFail == InitFail /\ [][NextFail]_vars

\* callers that issue mutating operations and await none of the JoinHandles
\* in between: no handle is opened anew and nothing is cleared. The batch
\* operations of the Set are left out: the records of HashSet::remove_batch
\* are of the Map kind, and what is looked at here is the order of the appends
NextNoAwait ==
    \/ \E h \in Slots, k \in Keys, v \in Vals : HashMap_insert(h, k, v)
    \/ \E h \in Slots, es \in Batches(Keys \X Vals) : HashMap_insert_batch(h, es)
    \/ \E h \in Slots, k \in Keys : HashMap_remove(h, k)
    \/ \E h \in Slots, ks \in Batches(Keys) : HashMap_remove_batch(h, ks)
    \/ \E h \in Slots, k \in Keys : HashSet_insert(h, k)
    \/ \E h \in Slots, k \in Keys : HashSet_remove(h, k)
    \/ \E i \in 1..MaxTasks : RunTask(i)

SpecNoAwait == InitFail /\ [][NextNoAwait]_vars

\* callers that await the JoinHandle of an insert or a remove before the next
\* one, so that the tasks of a handle reach the log in call order, but call
\* clear whether or not a task is pending
NextClearInFlight ==
    \/ \E h \in Slots, k \in Keys, v \in Vals :
          tasks = <<>> /\ HashMap_insert(h, k, v)
    \/ \E h \in Slots, k \in Keys : tasks = <<>> /\ HashMap_remove(h, k)
    \/ \E h \in Slots, k \in Keys : tasks = <<>> /\ HashSet_insert(h, k)
    \/ \E h \in Slots, k \in Keys : tasks = <<>> /\ HashSet_remove(h, k)
    \/ \E h \in Slots : HashMap_clear(h)
    \/ \E h \in Slots : HashSet_clear(h)
    \/ RunTask(1)

SpecClearInFlight == InitFail /\ [][NextClearInFlight]_vars

\* Names of every length up to MaxNameLen over the bytes NUL and "a": the empty
\* name, names that are prefixes of one another, names whose bytes look like
\* the bytes of a length.
IdNames == UNION {[1..n -> {0, 97}] : n \in 0..MaxNameLen}

InitIds ==
    /\ file = <<>>
    /\ ctor \in [Slots -> Ctors]
    /\ name \in [Slots -> IdNames]
    /\ CtorRank(ctor[1]) <= CtorRank(ctor[2])
    /\ id = [h \in Slots |-> IdOf(ctor[h], name[h])]
    /\ inner = [h \in Slots |-> EmptyMap]
    /\ tasks = <<>>
    /\ ret = <<>>
    /\ calls = 0
    /\ lock = {}

\* single-key calls, each awaited, and reopening
NextIds ==
    \/ \E h \in Slots : tasks = <<>> /\ Open(h)
    \/ \E h \in Slots, k \in Keys, v \in Vals :
          tasks = <<>> /\ HashMap_insert(h, k, v)
    \/ \E h \in Slots, k \in Keys : tasks = <<>> /\ HashMap_remove(h, k)
    \/ \E h \in Slots, k \in Keys : tasks = <<>> /\ HashSet_insert(h, k)
    \/ \E h \in Slots, k \in Keys : tasks = <<>> /\ HashSet_remove(h, k)
    \/ RunTask(1)

SpecIds == InitIds /\ [][NextIds]_vars

\* Byte payloads for ids, keys and values: empty, a single NUL, and two bytes
\* that read as a tag followed by a NUL.
Payloads == {<<>>, <<0>>, <<2, 0>>}

\* the DBEntry values of the four variants over these payloads
CodecEntries ==
    {HashMapEntry(i, k, v) : i \in Payloads, k \in Payloads, v \in Payloads}
        \cup {RemoveHashMapEntry(i, k) : i \in Payloads, k \in Payloads}
        \cup {HashSetEntry(i, k) : i \in Payloads, k \in Payloads}
        \cup {RemoveHashSetEntry(i, k) : i \in Payloads, k \in Payloads}

\* one pending task that is to write any one or two of these entries to an
\* empty file
InitCodec ==
    /\ file = <<>>
    /\ ctor = [h \in Slots |-> "hash_map_with_config"]
    /\ name = [h \in Slots |-> <<97>>]
    /\ id = [h \in Slots |-> IdOf(ctor[h], name[h])]
    /\ inner = [h \in Slots |-> EmptyMap]
    /\ tasks \in {<<[h |-> 1, entries |-> es, result |-> Returned(<<>>, <<>>)]>> :
                     es \in Batches(CodecEntries)}
    /\ ret = <<>>
    /\ calls = 0
    /\ lock = {}

SpecCodec == InitCodec /\ [][\E i \in 1..MaxTasks : RunTask(i)]_vars

\* tag bytes that no variant of DBEntry has
UnknownTags == {4, 255}

\* The file is cut at offset k: what a crash in the middle of a write, or a
\* truncation from outside, leaves for the next open to read.
Truncate(k) ==
    /\ k \in 0..(Len(file) - 1)
    /\ file' = SubSeq(file, 1, k)
    /\ UNCHANGED <<ctor, name, id, inner, tasks, ret, calls, lock>>

\* A byte that is no tag stands where the next record would start.
Corrupt(b) ==
    /\ SerializeAll(ReadEntries(file, 1)) = file
    /\ file' = file \o <<b>>
    /\ UNCHANGED <<ctor, name, id, inner, tasks, ret, calls, lock>>

\* the records single-key calls on the two handles write
ReplayEntries ==
    UNION {{HashMapEntry(id[h], SerU8(k), SerU8(v)) : k \in Keys, v \in Vals}
             \cup {RemoveHashMapEntry(id[h], SerU8(k)) : k \in Keys}
             \cup {HashSetEntry(id[h], SerU8(k)) : k \in Keys}
             \cup {RemoveHashSetEntry(id[h], SerU8(k)) : k \in Keys} : h \in Slots}

\* a Map and a Set of one name on an empty file, with the tasks of one or two
\* single-key calls still to run
InitReplay ==
    /\ file = <<>>
    /\ ctor = [h \in Slots |-> IF h = 1 THEN "hash_map_with_config" ELSE "hash_set"]
    /\ name = [h \in Slots |-> <<97>>]
    /\ id = [h \in Slots |-> IdOf(ctor[h], name[h])]
    /\ inner = [h \in Slots |-> EmptyMap]
    /\ tasks \in UNION {[1..n -> {[h |-> 1, entries |-> <<e>>,
                                    result |-> Returned(<<>>, <<>>)] : e \in ReplayEntries}] :
                         n \in 1..MaxTasks}
    /\ ret = <<>>
    /\ calls = 0
    /\ lock = {}

\* the log is written, cut or damaged before the first open, and opened
NextReplay ==
    \/ \E i \in 1..MaxTasks : RunTask(i)
    \/ \E k \in 0..Len(file) : calls = 0 /\ Truncate(k)
    \/ \E b \in UnknownTags : calls = 0 /\ Corrupt(b)
    \/ \E h \in Slots : Open(h)

SpecReplay == InitReplay /\ [][NextReplay]_vars

-----------------------------------------------------------------------------
(* ConcurrentHashMap over the Database of db/db.rs: one map per file, records
   without an id, every operation synchronous under the file mutex *)

\* keys of the runs on a ConcurrentHashMap
CompactKeys == {1, 2}

\* HashMapDBEntry<u8, u8>
Insert(k, v) == [tag |-> 0, key |-> k, value |-> v]
Remove(k) == [tag |-> 1, key |-> k, value |-> 0]

\* impl Serialize for HashMapDBEntry: the tag byte, the key, the value of an Insert
HashMapDBEntry_serialize(e) ==
    IF e.tag = 0 THEN <<0, e.key, e.value>> ELSE <<1, e.key>>

RECURSIVE HashMapDBEntry_serialize_all(_)
HashMapDBEntry_serialize_all(es) ==
    IF es = <<>> THEN <<>>
    ELSE HashMapDBEntry_serialize(Head(es)) \o HashMapDBEntry_serialize_all(Tail(es))

\* bincode::deserialize_from::<_, HashMapDBEntry<u8, u8>> at position pos
HashMapDBEntry_deserialize_from(buf, pos) ==
    IF pos > Len(buf) THEN [st |-> "eof"]
    ELSE IF buf[pos] = 0
         THEN IF pos + 2 > Len(buf) THEN [st |-> "eof"]
              ELSE [st |-> "ok", pos |-> pos + 3,
                    entry |-> Insert(buf[pos + 1], buf[pos + 2])]
    ELSE IF buf[pos] = 1
         THEN IF pos + 1 > Len(buf) THEN [st |-> "eof"]
              ELSE [st |-> "ok", pos |-> pos + 2, entry |-> Remove(buf[pos + 1])]
    ELSE [st |-> "invalid"]

\* ConcurrentHashMap::load_from_file: apply entries while they decode
RECURSIVE ConcurrentHashMap_load_from_file(_, _, _)
ConcurrentHashMap_load_from_file(buf, pos, m) ==
    LET r == HashMapDBEntry_deserialize_from(buf, pos) IN
    IF r.st # "ok" THEN m
    ELSE ConcurrentHashMap_load_from_file(buf, r.pos,
             IF r.entry.tag = 0 THEN MapPut(m, r.entry.key, r.entry.value)
                                ELSE MapDel(m, r.entry.key))

\* the orders in which DashMap::iter may yield the keys of m
IterOrders(m) ==
    {o \in [1..Cardinality(DOMAIN m) -> DOMAIN m] :
        \A i, j \in 1..Cardinality(DOMAIN m) : o[i] = o[j] => i = j}

\* a compaction that copies the new file behind the old contents
compact_db_file_no_truncate(f, m, o) ==
    f \o HashMapDBEntry_serialize_all([i \in 1..Len(o) |-> Insert(o[i], m[o[i]])])

\* compact_db: one Insert per entry of the map into a temporary file, then
\* seek to the start, set_len(0) and copy the temporary file
compact_db_file(f, m, o) ==
    HashMapDBEntry_serialize_all([i \in 1..Len(o) |-> Insert(o[i], m[o[i]])])

\* Database::hash_map: ConcurrentHashMap::new, load_from_file
ConcurrentHashMap_new(h) ==
    /\ Call
    /\ inner' = [inner EXCEPT ![h] = ConcurrentHashMap_load_from_file(file, 1, EmptyMap)]
    /\ ret' = <<h, "opened">>
    /\ UNCHANGED <<file, ctor, name, id, tasks, lock>>

ConcurrentHashMap_insert(h, k, v) ==
    /\ Call
    /\ inner' = [inner EXCEPT ![h] = MapPut(@, k, v)]
    /\ file' = file \o HashMapDBEntry_serialize(Insert(k, v))
    /\ ret' = <<h, "ok">>
    /\ UNCHANGED <<ctor, name, id, tasks, lock>>

ConcurrentHashMap_remove(h, k) ==
    /\ Call
    /\ inner' = [inner EXCEPT ![h] = MapDel(@, k)]
    /\ file' = IF k \in DOMAIN inner[h] THEN file \o HashMapDBEntry_serialize(Remove(k))
                                         ELSE file
    /\ ret' = IF k \in DOMAIN inner[h] THEN <<h, "ok", <<k, inner[h][k]>>>> ELSE <<h, "none">>
    /\ UNCHANGED <<ctor, name, id, tasks, lock>>

ConcurrentHashMap_compact_db(h, o) ==
    /\ Call
    /\ o \in IterOrders(inner[h])
    /\ file' = compact_db_file(file, inner[h], o)
    /\ ret' = <<h, "compacted">>
    /\ UNCHANGED <<ctor, name, id, inner, tasks, lock>>

\* two handles that Database::hash_map has given out on the empty file
InitCompact ==
    /\ file = <<>>
    /\ ctor = [h \in Slots |-> "db_hash_map"]
    /\ name = [h \in Slots |-> <<>>]
    /\ id = [h \in Slots |-> <<>>]
    /\ inner = [h \in Slots |-> EmptyMap]
    /\ tasks = <<>>
    /\ ret = <<>>
    /\ calls = 0
    /\ lock = {}

NextCompact ==
    \/ \E h \in Slots : ConcurrentHashMap_new(h)
    \/ \E h \in Slots, k \in CompactKeys, v \in Vals : ConcurrentHashMap_insert(h, k, v)
    \/ \E h \in Slots, k \in CompactKeys : ConcurrentHashMap_remove(h, k)
    \/ \E h \in Slots : \E o \in IterOrders(inner[h]) : ConcurrentHashMap_compact_db(h, o)

SpecCompact == InitCompact /\ [][NextCompact]_vars

-----------------------------------------------------------------------------
(* The file mutex, step by step *)

\* An activity at the file mutex: a clear or a load of handle h, or the
\* durability task of a call on h. pc is "wait" between the call of
\* lock_file and the guard, "held" with the guard, "read" once read_to_end
\* has filled buf. task holds the task's own data, in a one-element sequence.
Activity(who, h, pc, buf, task) ==
    [who |-> who, h |-> h, pc |-> pc, buf |-> buf, task |-> task]

\* the activities that hold a MutexGuard of the file
Holders == {a \in lock : a.pc # "wait"}

\* the caller of slot h is inside clear or load_from_file
Busy(h) == \E a \in lock : a.who # "task" /\ a.h = h

\* a lock that does not wait for the holder of the guard
lock_file_no_wait(waiting, a) ==
    lock' = (lock \ waiting) \cup {a}

\* Mutex::lock: returns the guard once nobody holds one
lock_file(waiting, a) ==
    /\ Holders = {}
    /\ lock' = (lock \ waiting) \cup {a}

\* the guard goes out of scope at the end of the function
drop_guard(a) == lock' = lock \ {a}

\* load_from_file of a new handle in slot h, up to the guard
Load_lock_file(h) ==
    /\ ~Busy(h)
    /\ Call
    /\ lock_file({}, Activity("load", h, "held", <<>>, <<>>))
    /\ inner' = [inner EXCEPT ![h] = EmptyMap]
    /\ ret' = <<>>
    /\ UNCHANGED <<file, ctor, name, id, tasks>>

\* load_from_file with the guard: seek, read_to_end, replay, return
Load_read_to_end(h) ==
    LET a == Activity("load", h, "held", <<>>, <<>>)
        l == Load(file, Kind(h), id[h]) IN
    /\ a \in lock
    /\ inner' = [inner EXCEPT ![h] = IF l.ok THEN l.inner ELSE EmptyMap]
    /\ ret' = IF l.ok THEN <<>> ELSE <<h, "open_err">>
    /\ drop_guard(a)
    /\ UNCHANGED <<file, ctor, name, id, tasks, calls>>

\* clear: self.inner.clear(), then the call of lock_file
Clear_inner(h) ==
    /\ ~Busy(h)
    /\ Call
    /\ inner' = [inner EXCEPT ![h] = EmptyMap]
    /\ lock' = lock \cup {Activity("clear", h, "wait", <<>>, <<>>)}
    /\ ret' = <<>>
    /\ UNCHANGED <<file, ctor, name, id, tasks>>

\* clear: lock_file returns the guard
Clear_lock_file(h) ==
    LET a == Activity("clear", h, "wait", <<>>, <<>>) IN
    /\ a \in lock
    /\ lock_file({a}, [a EXCEPT !.pc = "held"])
    /\ UNCHANGED <<file, ctor, name, id, inner, tasks, ret, calls>>

\* clear: seek to the start and read_to_end into the buffer
Clear_read_to_end(h) ==
    LET a == Activity("clear", h, "held", <<>>, <<>>) IN
    /\ a \in lock
    /\ lock' = (lock \ {a}) \cup {[a EXCEPT !.pc = "read", !.buf = file]}
    /\ UNCHANGED <<file, ctor, name, id, inner, tasks, ret, calls>>

\* clear: set_len(0), seek, write_all of the records kept from the buffer,
\* flush, return
Clear_write_all(h) ==
    \E a \in lock :
        /\ a.who = "clear" /\ a.h = h /\ a.pc = "read"
        /\ file' = IF Kind(h) = "map" THEN HashMap_clear_file(a.buf, id[h])
                                      ELSE HashSet_clear_file(a.buf, id[h])
        /\ ret' = <<h, "cleared">>
        /\ drop_guard(a)
        /\ UNCHANGED <<ctor, name, id, inner, tasks, calls>>

\* a spawned task is polled and serialize_to_file gets the guard
Task_lock_file(i) ==
    /\ i \in 1..Len(tasks)
    /\ lock_file({}, Activity("task", tasks[i].h, "held", <<>>, <<tasks[i]>>))
    /\ tasks' = SubSeq(tasks, 1, i - 1) \o SubSeq(tasks, i + 1, Len(tasks))
    /\ UNCHANGED <<file, ctor, name, id, inner, ret, calls>>

\* serialize_to_file with the guard: seek to the end, write_all, flush,
\* return; the task resolves
Task_write_all(h) ==
    \E a \in lock :
        /\ a.who = "task" /\ a.h = h /\ a.pc = "held"
        /\ file' = serialize_to_file(file, SerializeAll(a.task[1].entries))
        /\ ret' = <<h, "ok", a.task[1].result>>
        /\ drop_guard(a)
        /\ UNCHANGED <<ctor, name, id, inner, tasks, calls>>

\* one caller per slot: no call through h while its clear or load is under
\* way; the calls that only spawn are the ones of Calls
NextLock ==
    \/ \E h \in Slots : Load_lock_file(h)
    \/ \E h \in Slots : Load_read_to_end(h)
    \/ \E h \in Slots : Clear_inner(h)
    \/ \E h \in Slots : Clear_lock_file(h)
    \/ \E h \in Slots : Clear_read_to_end(h)
    \/ \E h \in Slots : Clear_write_all(h)
    \/ \E h \in Slots, k \in Keys, v \in Vals : ~Busy(h) /\ HashMap_insert(h, k, v)
    \/ \E h \in Slots, k \in Keys : ~Busy(h) /\ HashMap_remove(h, k)
    \/ \E h \in Slots, k \in Keys : ~Busy(h) /\ HashSet_insert(h, k)
    \/ \E h \in Slots, k \in Keys : ~Busy(h) /\ HashSet_remove(h, k)
    \/ \E i \in 1..MaxTasks : Task_lock_file(i)
    \/ \E h \in Slots : Task_write_all(h)

SpecLock == InitFail /\ [][NextLock]_vars

(* clear of structures/mod.rs: the guard is dropped between read and rewrite *)

\* std::io::copy from a file whose cursor stands at pos: the bytes after pos
io_copy(src, pos) == SubSeq(src, pos + 1, Len(src))

\* the file after the rewrite of the clear in structures/mod.rs: the kept
\* records are written to a temporary file, whose cursor then stands at its
\* end, and after set_len(0) the temporary file is copied from its cursor
mod_clear_file(buf, self_id) ==
    LET kept == HashMap_clear_file(buf, self_id) IN
    io_copy(kept, Len(kept))

\* clear: self.inner.clear(), then the first call of lock_file
ModClear_inner(h) ==
    /\ Kind(h) = "map"
    /\ ~Busy(h)
    /\ Call
    /\ inner' = [inner EXCEPT ![h] = EmptyMap]
    /\ lock' = lock \cup {Activity("mod_clear", h, "wait", <<>>, <<>>)}
    /\ ret' = <<>>
    /\ UNCHANGED <<file, ctor, name, id, tasks>>

\* clear: lock_file returns the first guard
ModClear_lock_file(h) ==
    LET a == Activity("mod_clear", h, "wait", <<>>, <<>>) IN
    /\ a \in lock
    /\ lock_file({a}, [a EXCEPT !.pc = "held"])
    /\ UNCHANGED <<file, ctor, name, id, inner, tasks, ret, calls>>

\* clear: seek, read_to_end, drop(file); the records to keep are worked out
\* from the buffer without the guard, and lock_file is called again
ModClear_read_to_end(h) ==
    LET a == Activity("mod_clear", h, "held", <<>>, <<>>) IN
    /\ a \in lock
    /\ lock' = (lock \ {a}) \cup {Activity("mod_rewrite", h, "wait", file, <<>>)}
    /\ UNCHANGED <<file, ctor, name, id, inner, tasks, ret, calls>>

\* clear: lock_file returns the second guard
ModClear_relock(h) ==
    \E a \in lock :
        /\ a.who = "mod_rewrite" /\ a.h = h /\ a.pc = "wait"
        /\ lock_file({a}, [a EXCEPT !.pc = "held"])
        /\ UNCHANGED <<file, ctor, name, id, inner, tasks, ret, calls>>

\* clear: set_len(0), seek, io::copy from the temporary file, flush, return
ModClear_copy(h) ==
    \E a \in lock :
        /\ a.who = "mod_rewrite" /\ a.h = h /\ a.pc = "held"
        /\ file' = mod_clear_file(a.buf, id[h])
        /\ ret' = <<h, "cleared">>
        /\ drop_guard(a)
        /\ UNCHANGED <<ctor, name, id, inner, tasks, calls>>

NextModClear ==
    \/ \E h \in Slots : ModClear_inner(h)
    \/ \E h \in Slots : ModClear_lock_file(h)
    \/ \E h \in Slots : ModClear_read_to_end(h)
    \/ \E h \in Slots : ModClear_relock(h)
    \/ \E h \in Slots : ModClear_copy(h)
    \/ \E h \in Slots, k \in Keys, v \in Vals : ~Busy(h) /\ HashMap_insert(h, k, v)
    \/ \E h \in Slots, k \in Keys : ~Busy(h) /\ HashMap_remove(h, k)
    \/ \E h \in Slots, k \in Keys : ~Busy(h) /\ HashSet_insert(h, k)
    \/ \E h \in Slots, k \in Keys : ~Busy(h) /\ HashSet_remove(h, k)
    \/ \E i \in 1..MaxTasks : Task_lock_file(i)
    \/ \E h \in Slots : Task_write_all(h)

SpecModClear == InitFail /\ [][NextModClear]_vars

(* compact_db and insert of one ConcurrentHashMap in two threads *)

\* a thread of the kind who is inside a call on handle h
InCall(who, h) == \E a \in lock : a.who = who /\ a.h = h

\* compact_db without the guard: self.iter() in the order o into the
\* temporary file, flush and seek to its start, then the call of lock()
Compact_iter(h, o) ==
    /\ ~InCall("compact", h)
    /\ Call
    /\ o \in IterOrders(inner[h])
    /\ lock' = lock \cup {Activity("compact", h, "wait",
                                   compact_db_file(file, inner[h], o), <<>>)}
    /\ ret' = <<>>
    /\ UNCHANGED <<file, ctor, name, id, inner, tasks>>

\* compact_db: lock() returns the guard
Compact_lock_file(h) ==
    \E a \in lock :
        /\ a.who = "compact" /\ a.h = h /\ a.pc = "wait"
        /\ lock_file({a}, [a EXCEPT !.pc = "held"])
        /\ UNCHANGED <<file, ctor, name, id, inner, tasks, ret, calls>>

\* compact_db with the guard: seek, set_len(0), io::copy of the temporary
\* file, return
Compact_copy(h) ==
    \E a \in lock :
        /\ a.who = "compact" /\ a.h = h /\ a.pc = "held"
        /\ file' = a.buf
        /\ ret' = <<h, "compacted">>
        /\ drop_guard(a)
        /\ UNCHANGED <<ctor, name, id, inner, tasks, calls>>

\* insert without the guard: self.map.insert, then the call of lock()
Insert_map(h, k, v) ==
    /\ ~InCall("insert", h)
    /\ Call
    /\ inner' = [inner EXCEPT ![h] = MapPut(@, k, v)]
    /\ lock' = lock \cup {Activity("insert", h, "wait",
                                   HashMapDBEntry_serialize(Insert(k, v)), <<>>)}
    /\ ret' = <<>>
    /\ UNCHANGED <<file, ctor, name, id, tasks>>

\* insert: lock() returns the guard
Insert_lock_file(h) ==
    \E a \in lock :
        /\ a.who = "insert" /\ a.h = h /\ a.pc = "wait"
        /\ lock_file({a}, [a EXCEPT !.pc = "held"])
        /\ UNCHANGED <<file, ctor, name, id, inner, tasks, ret, calls>>

\* insert with the guard: seek to the end, serialize_into, return
Insert_write(h) ==
    \E a \in lock :
        /\ a.who = "insert" /\ a.h = h /\ a.pc = "held"
        /\ file' = file \o a.buf
        /\ ret' = <<h, "ok">>
        /\ drop_guard(a)
        /\ UNCHANGED <<ctor, name, id, inner, tasks, calls>>

\* one ConcurrentHashMap, handle 1, used by a thread that compacts and a
\* thread that inserts
NextCompactRace ==
    \/ \E o \in IterOrders(inner[1]) : Compact_iter(1, o)
    \/ Compact_lock_file(1)
    \/ Compact_copy(1)
    \/ \E k \in CompactKeys, v \in Vals : Insert_map(1, k, v)
    \/ Insert_lock_file(1)
    \/ Insert_write(1)

SpecCompactRace == InitCompact /\ [][NextCompactRace]_vars

(* A poisoned file mutex *)

\* the mark a thread leaves in the mutex when it panics with the guard in
\* hand: std's Mutex::lock returns Err(PoisonError) from then on
Poison == Activity("panic", 0, "poisoned", <<>>, <<>>)

Poisoned == Poison \in lock

\* a thread panics while it holds the MutexGuard of the file
PoisonMutex ==
    /\ lock = {}
    /\ lock' = {Poison}
    /\ UNCHANGED <<file, ctor, name, id, inner, tasks, ret, calls>>

\* load_from_file on the poisoned mutex: lock_file maps the PoisonError to
\* StructureError::MutexLockError, `?` returns it, and the constructor
\* returns no handle
Open_poisoned(h) ==
    /\ Poisoned
    /\ Call
    /\ inner' = [inner EXCEPT ![h] = EmptyMap]
    /\ ret' = <<h, "MutexLockError">>
    /\ UNCHANGED <<file, ctor, name, id, tasks, lock>>

\* clear on the poisoned mutex: inner.clear() has run when lock_file fails,
\* and the file is not touched
Clear_poisoned(h) ==
    /\ Poisoned
    /\ Call
    /\ inner' = [inner EXCEPT ![h] = EmptyMap]
    /\ ret' = <<h, "MutexLockError">>
    /\ UNCHANGED <<file, ctor, name, id, tasks, lock>>

\* Database::flush: self.file.lock().unwrap().flush()?. On a healthy mutex
\* it takes the guard, flushes and returns Ok(()); on a poisoned one the
\* unwrap of the PoisonError panics in the caller's thread
Database_flush ==
    /\ Call
    /\ ret' = IF Poisoned THEN <<0, "panic">> ELSE <<0, "flushed">>
    /\ UNCHANGED <<file, ctor, name, id, inner, tasks, lock>>

\* the calls of Calls that spawn a durability task need not the file
\* themselves and go on after the poisoning; their tasks meet the mutex
NextPoison ==
    \/ \E h \in Slots : ~Poisoned /\ Open(h)
    \/ \E h \in Slots : ~Poisoned /\ HashMap_clear(h)
    \/ \E h \in Slots : ~Poisoned /\ HashSet_clear(h)
    \/ \E i \in 1..MaxTasks : ~Poisoned /\ RunTask(i)
    \/ \E h \in Slots, k \in Keys, v \in Vals : HashMap_insert(h, k, v)
    \/ \E h \in Slots, es \in Batches(Keys \X Vals) : HashMap_insert_batch(h, es)
    \/ \E h \in Slots, k \in Keys : HashMap_remove(h, k)
    \/ \E h \in Slots, ks \in Batches(Keys) : HashMap_remove_batch(h, ks)
    \/ \E h \in Slots, k \in Keys : HashSet_insert(h, k)
    \/ \E h \in Slots, ks \in Batches(Keys) : HashSet_insert_batch(h, ks)
    \/ \E h \in Slots, k \in Keys : HashSet_remove(h, k)
    \/ \E h \in Slots, ks \in Batches(Keys) : HashSet_remove_batch(h, ks)
    \/ PoisonMutex
    \/ \E h \in Slots : Open_poisoned(h)
    \/ \E h \in Slots : Clear_poisoned(h)
    \/ \E i \in 1..MaxTasks : Poisoned /\ FailTask(i, "MutexLockError", 0)
    \/ Database_flush

SpecPoison == InitFail /\ [][NextPoison]_vars

-----------------------------------------------------------------------------
(* Vocabulary of the properties *)

\* the records of the log f, in log order
Records(f) == ReadEntries(f, 1)

\* what a fresh open of handle h's collection replays from the log f
Replay(f, h) == Load(f, Kind(h), id[h])

\* a successful replay to the in-memory state m
Loaded(m) == [ok |-> TRUE, inner |-> m]

\* no other handle carries the CollectionId of h
OwnId(h) == \A g \in Slots \ {h} : id[g] # id[h]

\* g and h are handles of two collections
OtherCollection(g, h) == Kind(g) # Kind(h) \/ id[g] # id[h]

\* clear() of handle a returns
Cleared(a) == HashMap_clear(a) \/ HashSet_clear(a)

\* a mutating operation of handle a takes a step: one of its calls returns,
\* or the durability task of one of its calls runs
Mutates(a) ==
    \/ \E k \in Keys, v \in Vals : HashMap_insert(a, k, v)
    \/ \E es \in Batches(Keys \X Vals) : HashMap_insert_batch(a, es)
    \/ \E k \in Keys : HashMap_remove(a, k)
    \/ \E ks \in Batches(Keys) : HashMap_remove_batch(a, ks)
    \/ \E k \in Keys : HashSet_insert(a, k)
    \/ \E ks \in Batches(Keys) : HashSet_insert_batch(a, ks)
    \/ \E k \in Keys : HashSet_remove(a, k)
    \/ \E ks \in Batches(Keys) : HashSet_remove_batch(a, ks)
    \/ Cleared(a)
    \/ \E i \in 1..Len(tasks) : tasks[i].h = a /\ RunTask(i)

\* the records of f whose id is not self_id, in log order
OtherIds(f, self_id) == SelectSeq(Records(f), LAMBDA e : e.id # self_id)

\* the task the call that just returned has spawned
Spawned == tasks'[Len(tasks')]

-----------------------------------------------------------------------------
(* Replay *)

\* C1 -- Map replay equals fold: when every durability task of the calls made
\* so far has run before the next call, a fresh open of a Map handle's
\* collection replays the log to exactly the handle's in-memory state, which
\* is the state the calls built up from the empty map.
C1_MapReplayEqualsFold ==
    \A h \in Slots :
        Kind(h) = "map" /\ OwnId(h) /\ tasks = <<>>
            => Replay(file, h) = Loaded(inner[h])

\* C1 is exercised: insert, remove and a second insert on a Map handle, all
\* awaited, have left three records and the value of the second insert
C1_Witness ==
    \E h \in Slots :
        /\ Kind(h) = "map" /\ OwnId(h) /\ tasks = <<>>
        /\ Len(Records(file)) = 3
        /\ Records(file)[2] = RemoveHashMapEntry(id[h], SerU8(1))
        /\ inner[h] = MapPut(EmptyMap, 1, 2)
        /\ Replay(file, h) = Loaded(inner[h])

\* C2 -- Set replay equals fold: when every durability task of the calls made
\* so far has run before the next call, a fresh open of a Set handle's
\* collection replays the log to exactly the elements the handle holds in
\* memory; an element removed by remove_batch is absent after reopening.
C2_SetReplayEqualsMemory ==
    \A h \in Slots :
        Kind(h) = "set" /\ OwnId(h) /\ tasks = <<>>
            => Replay(file, h) = Loaded(inner[h])

-----------------------------------------------------------------------------
(* Isolation *)

\* C3 -- Multi-tenant isolation: for two handles whose collections have
\* different names, no step of an insert, remove, insert_batch, remove_batch
\* or clear on the one (the call or its durability task) changes what a fresh
\* open of the other replays from the log.
C3_DistinctNamesIsolated ==
    [][\A a, b \in Slots :
          name[a] # name[b] /\ Mutates(a)
              => Replay(file', b) = Replay(file, b)]_vars

\* C3 is exercised: a record of collection a follows a record of a collection
\* b of another name in the log, and b replays to a non-empty state
C3_Witness ==
    \E a, b \in Slots :
        /\ name[a] # name[b]
        /\ Len(Records(file)) >= 2
        /\ Records(file)[1].id = id[b]
        /\ Records(file)[2].id = id[a]
        /\ Replay(file, b).inner # EmptyMap

\* C4 -- Kind isolation: for a Map and a Set that carry the same CollectionId,
\* no step of an operation on the one (the call or its durability task)
\* changes what a fresh open of the other replays from the log.
C4_SameIdKindsIsolated ==
    [][\A a, b \in Slots :
          id[a] = id[b] /\ Kind(a) # Kind(b) /\ Mutates(a)
              => Replay(file', b) = Replay(file, b)]_vars

-----------------------------------------------------------------------------
(* Clear *)

\* C5 -- Selective clear: when no durability task is pending, a clear() of
\* handle a that returns Ok leaves a empty in memory, makes a fresh open of
\* a's collection replay to the empty state, and leaves the replay of every
\* other collection b as it was before the clear.
C5_SelectiveClear ==
    [][\A a \in Slots :
          Cleared(a) /\ tasks = <<>>
              => /\ inner'[a] = EmptyMap
                 /\ Replay(file', a) = Loaded(EmptyMap)
                 /\ \A b \in Slots :
                       OtherCollection(a, b)
                           => Replay(file', b) = Replay(file, b)]_vars

\* C5 is exercised: a clear has returned with no task pending, and another
\* collection still replays to a non-empty state
C5_Witness ==
    \E a, b \in Slots :
        /\ ret = <<a, "cleared">> /\ tasks = <<>>
        /\ OtherCollection(a, b)
        /\ Replay(file, a) = Loaded(EmptyMap)
        /\ Replay(file, b).inner # EmptyMap

\* C6 -- clear() of a collection leaves the records of every other id in the
\* log, unchanged and in their order: the log restricted to the records of
\* other ids is the same after the clear as before it.
C6_ClearKeepsOtherIds ==
    [][\A a \in Slots :
          Cleared(a) => OtherIds(file', id[a]) = OtherIds(file, id[a])]_vars

\* C6 is exercised: a clear has returned and the log holds two records of
\* another id
C6_Witness ==
    \E a \in Slots :
        /\ ret = <<a, "cleared">>
        /\ Len(OtherIds(file, id[a])) = 2
        /\ Records(file) = OtherIds(file, id[a])

-----------------------------------------------------------------------------
(* Durability tasks and the log *)

\* C7 -- Batch contiguity: the task of an insert_batch holds one entry per
\* input pair, in input order, and whichever pending task the runtime runs,
\* that task's entries become the last records of the log, consecutive and in
\* order, behind the unchanged records already there.
C7_BatchContiguous ==
    [][/\ \A h \in Slots, es \in Batches(Keys \X Vals) :
             HashMap_insert_batch(h, es)
                 => /\ Len(Spawned.entries) = Len(es)
                    /\ \A j \in 1..Len(es) :
                          /\ Spawned.entries[j].tag = 0
                          /\ Spawned.entries[j].id = id[h]
                          /\ Spawned.entries[j].key = SerU8(es[j][1])
                          /\ Spawned.entries[j].value = SerU8(es[j][2])
       /\ \A h \in Slots, ks \in Batches(Keys) :
             HashSet_insert_batch(h, ks)
                 => /\ Len(Spawned.entries) = Len(ks)
                    /\ \A j \in 1..Len(ks) :
                          /\ Spawned.entries[j].tag = 2
                          /\ Spawned.entries[j].id = id[h]
                          /\ Spawned.entries[j].key = SerU8(ks[j])
       /\ \A i \in 1..Len(tasks) :
             RunTask(i)
                 => LET old == Records(file)
                        new == Records(file')
                        es == tasks[i].entries
                    IN  /\ Len(new) = Len(old) + Len(es)
                        /\ \A j \in 1..Len(old) : new[j] = old[j]
                        /\ \A j \in 1..Len(es) : new[Len(old) + j] = es[j]]_vars

\* C7 is exercised: two calls have left three records, the batch of two of
\* one collection behind the record of another
C7_Witness ==
    /\ calls = 2 /\ tasks = <<>>
    /\ Len(Records(file)) = 3
    /\ Records(file)[1].id # Records(file)[2].id
    /\ Records(file)[2].id = Records(file)[3].id
    /\ Records(file)[2].tag = Records(file)[3].tag

\* C8 -- Durability completion implies the record is in the log: a single
\* insert or remove leaves the log as it is when it returns, and the task it
\* spawned holds one entry with the collection's id, the key and (for a Map
\* insert) the value; when such a task runs, the log grows by exactly that
\* record, at its end.
C8_ResolvedSingleInLog ==
    [][/\ \A h \in Slots, k \in Keys, v \in Vals :
             HashMap_insert(h, k, v)
                 => /\ file' = file
                    /\ Spawned.entries = <<HashMapEntry(id[h], SerU8(k), SerU8(v))>>
       /\ \A h \in Slots, k \in Keys :
             /\ HashMap_remove(h, k) /\ k \in DOMAIN inner[h]
                    => /\ file' = file
                       /\ Spawned.entries = <<RemoveHashMapEntry(id[h], SerU8(k))>>
             /\ HashSet_insert(h, k)
                    => /\ file' = file
                       /\ Spawned.entries = <<HashSetEntry(id[h], SerU8(k))>>
             /\ HashSet_remove(h, k) /\ k \in DOMAIN inner[h]
                    => /\ file' = file
                       /\ Spawned.entries = <<RemoveHashSetEntry(id[h], SerU8(k))>>
       /\ \A i \in 1..Len(tasks) :
             RunTask(i) /\ Len(tasks[i].entries) = 1
                 => Records(file') = Append(Records(file), tasks[i].entries[1])]_vars

\* C8 is exercised: an insert and a remove have resolved, and their two
\* records are the log
C8_Witness ==
    \E h \in Slots :
        /\ calls = 2 /\ tasks = <<>>
        /\ Records(file) = <<HashMapEntry(id[h], SerU8(1), SerU8(2)),
                             RemoveHashMapEntry(id[h], SerU8(1))>>

\* C9 -- Single-handle append order: of two pending tasks of one handle, the
\* one spawned by the earlier call is the one whose records reach the log
\* first, whether or not the caller awaits.
C9_AppendOrderIsCallOrder ==
    [][\A i \in 1..Len(tasks) :
          RunTask(i) /\ tasks[i].entries # <<>>
              => \A j \in 1..(i - 1) :
                    tasks[j].h = tasks[i].h /\ tasks[j].entries # <<>>
                        => tasks[j].entries = tasks[i].entries]_vars

-----------------------------------------------------------------------------
(* In-memory visibility *)

\* DashMap::get and DashMap::len on handle h when the call has returned
GetAtReturn(h, k) == MapGet(inner'[h], k)
LenAtReturn(h) == Cardinality(DOMAIN inner'[h])

\* C10 -- Immediate in-memory visibility: when insert, remove, insert_batch or
\* remove_batch returns, the log is as it was and the task (if one was
\* spawned) is pending, and get and len on the handle already show the change.
C10_VisibleAtReturn ==
    [][\A h \in Slots :
          /\ \A k \in Keys, v \in Vals :
                HashMap_insert(h, k, v)
                    => /\ file' = file /\ tasks' = Append(tasks, Spawned)
                       /\ GetAtReturn(h, k) = <<v>>
                       /\ LenAtReturn(h) = Cardinality(DOMAIN inner[h] \cup {k})
          /\ \A es \in Batches(Keys \X Vals) :
                HashMap_insert_batch(h, es)
                    => /\ file' = file /\ tasks' = Append(tasks, Spawned)
                       /\ \A i \in 1..Len(es) :
                             (\A j \in (i + 1)..Len(es) : es[j][1] # es[i][1])
                                 => GetAtReturn(h, es[i][1]) = <<es[i][2]>>
                       /\ LenAtReturn(h) =
                             Cardinality(DOMAIN inner[h]
                                            \cup {es[i][1] : i \in 1..Len(es)})
          /\ \A k \in Keys :
                /\ HashMap_remove(h, k) \/ HashSet_remove(h, k)
                       => /\ file' = file
                          /\ GetAtReturn(h, k) = <<>>
                          /\ LenAtReturn(h) = Cardinality(DOMAIN inner[h] \ {k})
                /\ HashSet_insert(h, k)
                       => /\ file' = file /\ tasks' = Append(tasks, Spawned)
                          /\ GetAtReturn(h, k) # <<>>
                          /\ LenAtReturn(h) = Cardinality(DOMAIN inner[h] \cup {k})
          /\ \A ks \in Batches(Keys) :
                /\ HashMap_remove_batch(h, ks) \/ HashSet_remove_batch(h, ks)
                       => /\ file' = file /\ tasks' = Append(tasks, Spawned)
                          /\ \A i \in 1..Len(ks) : GetAtReturn(h, ks[i]) = <<>>
                          /\ LenAtReturn(h) =
                                Cardinality(DOMAIN inner[h]
                                               \ {ks[i] : i \in 1..Len(ks)})
                /\ HashSet_insert_batch(h, ks)
                       => /\ file' = file /\ tasks' = Append(tasks, Spawned)
                          /\ \A i \in 1..Len(ks) : GetAtReturn(h, ks[i]) # <<>>
                          /\ LenAtReturn(h) =
                                Cardinality(DOMAIN inner[h]
                                               \cup {ks[i] : i \in 1..Len(ks)})]_vars

\* C10 is exercised: an insert_batch of two pairs with the same key has
\* returned, its task is pending, the log is empty and get sees the last value
C10_Witness ==
    \E h \in Slots :
        /\ file = <<>> /\ Len(tasks) = 1 /\ tasks[1].h = h
        /\ Len(tasks[1].entries) = 2
        /\ tasks[1].entries[2].value = SerU8(2)
        /\ MapGet(inner[h], 1) = <<2>>

-----------------------------------------------------------------------------
(* Failure of a durability task *)

\* a pending task has ended in this step, with Ok or with an error
TaskEnded == Len(tasks') < Len(tasks)

\* C11 (as claimed) -- No rollback on durability failure: when the task of a
\* mutating operation fails, its handle resolves with the error, the
\* in-memory state is as it was, and the log is as it was before the task's
\* append.
C11_FailureLeavesLog ==
    [][TaskEnded /\ ret'[2] \in TaskErrors =>
       \A i \in 1..Len(tasks) :
          FailTask(i, ret'[2], Len(file') - Len(file))
              => /\ ret' = <<tasks[i].h, ret'[2]>>
                 /\ inner' = inner
                 /\ file' = file]_vars

\* C11 (amended) -- when the task of a mutating operation fails, its handle
\* resolves with the error and the in-memory state is as it was; the log is
\* as it was when the codec, the lock or the seek failed, and otherwise has
\* grown by no more than a proper prefix of the bytes the task had to append.
C11_FailureKeepsMemory ==
    [][TaskEnded /\ ret'[2] \in TaskErrors =>
       \A i \in 1..Len(tasks) :
          FailTask(i, ret'[2], Len(file') - Len(file))
              => LET data == SerializeAll(tasks[i].entries) IN
                 /\ ret' = <<tasks[i].h, ret'[2]>>
                 /\ inner' = inner
                 /\ ret'[2] # "IoError" => file' = file
                 /\ Len(file') - Len(file) \in 0..Len(data)
                 /\ Len(file') - Len(file) = Len(data) => data = <<>>
                 /\ file' = file \o SubSeq(data, 1, Len(file') - Len(file))]_vars

\* C11 is exercised: an insert's write has failed part-way, the handle got the
\* I/O error, the key is in memory and the log holds a torn record only
C11_Witness ==
    \E h \in Slots :
        /\ ret = <<h, "IoError">>
        /\ file # <<>> /\ Records(file) = <<>>
        /\ inner[h] # EmptyMap
        /\ Replay(file, h) = Loaded(EmptyMap)

-----------------------------------------------------------------------------
(* Results of the operations *)

\* the task that ran in this step resolved its JoinHandle to Ok(result)
ResolvedOk(i) == ret' = <<tasks[i].h, "ok", tasks[i].result>>

\* C12 -- Map insert result: insert(k, v) leaves v at k in the handle's memory
\* when it returns, and its JoinHandle resolves to Ok(p) with p the value the
\* handle held at k just before the call, None when it held none.
C12_MapInsertResult ==
    [][/\ \A h \in Slots, k \in Keys, v \in Vals :
             HashMap_insert(h, k, v)
                 => /\ k \in DOMAIN inner'[h] /\ inner'[h][k] = v
                    /\ Spawned.h = h
                    /\ Spawned.result.values =
                          <<IF k \in DOMAIN inner[h] THEN <<inner[h][k]>> ELSE <<>>>>
       /\ \A i \in 1..Len(tasks) : RunTask(i) => ResolvedOk(i)]_vars

\* C12 is exercised: the second insert at a key has resolved to the value of
\* the first, and the handle holds the value of the second
C12_Witness ==
    \E h \in Slots :
        /\ Len(ret) = 3 /\ ret[1] = h /\ ret[2] = "ok"
        /\ ret[3] = Returned(<<<<1>>>>, <<>>)
        /\ Len(Records(file)) = 2
        /\ Records(file)[2] = HashMapEntry(id[h], SerU8(1), SerU8(2))
        /\ inner[h] = MapPut(EmptyMap, 1, 2)

\* C13 -- remove(k) of a key the handle does not hold in memory returns None,
\* spawns no task, appends nothing to the log and leaves every in-memory
\* index as it was, for a Map and for a Set.
C13_RemoveAbsent ==
    [][\A h \in Slots, k \in Keys :
          (HashMap_remove(h, k) \/ HashSet_remove(h, k)) /\ k \notin DOMAIN inner[h]
              => /\ ret' = <<h, "none">>
                 /\ tasks' = tasks
                 /\ file' = file
                 /\ inner' = inner]_vars

\* C13 is exercised: a remove has returned None on a handle that holds
\* nothing, while the log holds a record and a task is pending
C13_Witness ==
    \E h \in Slots :
        /\ Len(ret) = 2 /\ ret[1] = h /\ ret[2] = "none"
        /\ inner[h] = EmptyMap
        /\ Len(Records(file)) = 1 /\ Len(tasks) = 1

\* C14 -- Map remove(k) of a key held in memory removes it before it returns,
\* returns a JoinHandle (a task is spawned for one RemoveHashMapEntry of the
\* key), and the handle resolves to Ok(Some(v)), v the value that was held,
\* once the task has appended that record.
C14_MapRemovePresent ==
    [][/\ \A h \in Slots, k \in Keys :
             HashMap_remove(h, k) /\ k \in DOMAIN inner[h]
                 => /\ k \notin DOMAIN inner'[h]
                    /\ ret' = <<>> /\ tasks' = Append(tasks, Spawned)
                    /\ Spawned.h = h
                    /\ Spawned.entries = <<RemoveHashMapEntry(id[h], SerU8(k))>>
                    /\ Spawned.result = Returned(<<<<inner[h][k]>>>>, <<>>)
       /\ \A i \in 1..Len(tasks) :
             RunTask(i) /\ Len(tasks[i].entries) = 1 /\ tasks[i].entries[1].tag = 1
                 => /\ ResolvedOk(i)
                    /\ Len(Records(file')) = Len(Records(file)) + 1
                    /\ Records(file')[Len(Records(file'))] = tasks[i].entries[1]]_vars

\* C14 is exercised: the remove of a key that held 2 has resolved to Some(2),
\* its record is the last of the log and the key is gone from memory
C14_Witness ==
    \E h \in Slots :
        /\ Len(ret) = 3 /\ ret[1] = h /\ ret[2] = "ok"
        /\ ret[3] = Returned(<<<<2>>>>, <<>>)
        /\ Len(Records(file)) = 2
        /\ Records(file)[2] = RemoveHashMapEntry(id[h], SerU8(1))
        /\ inner[h] = EmptyMap

\* C15 -- Set results: the JoinHandle of insert(k) resolves to Ok(true) when
\* k was not in the set before the call and to Ok(false) when it was;
\* remove(k) of a member leaves k out of the set and its JoinHandle resolves
\* to Ok(Some(k)).
C15_SetResults ==
    [][/\ \A h \in Slots, k \in Keys :
             /\ HashSet_insert(h, k)
                    => /\ k \in DOMAIN inner'[h]
                       /\ Spawned.h = h
                       /\ Spawned.result.inserted = <<k \notin DOMAIN inner[h]>>
             /\ HashSet_remove(h, k) /\ k \in DOMAIN inner[h]
                    => /\ k \notin DOMAIN inner'[h]
                       /\ Spawned.h = h
                       /\ Spawned.result.values = <<<<k>>>>
       /\ \A i \in 1..Len(tasks) :
             RunTask(i) /\ Kind(tasks[i].h) = "set" => ResolvedOk(i)]_vars

\* C15 is exercised: the insert of a member has resolved to Ok(false), behind
\* the record of the insert that made it a member
C15_Witness ==
    \E h \in Slots :
        /\ Len(ret) = 3 /\ ret[1] = h /\ ret[2] = "ok"
        /\ ret[3] = Returned(<<>>, <<FALSE>>)
        /\ Records(file) = <<HashSetEntry(id[h], SerU8(1)),
                             HashSetEntry(id[h], SerU8(1))>>

-----------------------------------------------------------------------------
(* Progress of the durability tasks *)

\* a pending task has appended its encoded records to the end of the log
Appended ==
    \E i \in 1..Len(tasks) :
        /\ tasks' = SubSeq(tasks, 1, i - 1) \o SubSeq(tasks, i + 1, Len(tasks))
        /\ file' = file \o SerializeAll(tasks[i].entries)

\* C16 -- No cancellation by drop: no caller ever has to await a JoinHandle,
\* and still, with the runtime scheduling fairly and no I/O failure, a pending
\* durability task leaves only by appending its records to the log, and
\* whenever tasks are pending they eventually all have done so.
C16_NoCancellation ==
    /\ [][TaskEnded => Appended]_vars
    /\ (tasks # <<>>) ~> (tasks = <<>>)

\* C16 is exercised: two calls were made without awaiting, and both records
\* are in the log with no task left
C16_Witness ==
    /\ calls = 2 /\ tasks = <<>>
    /\ Len(Records(file)) = 2
    /\ Len(ret) = 3 /\ ret[2] = "ok"

-----------------------------------------------------------------------------
(* The file mutex *)

\* C17 -- File mutual exclusion: at no time do two activities (the append of
\* a durability task, the replay of an open, a clear) hold the guard of the
\* file mutex, and every step that reads the log or changes it is taken by
\* the one activity that holds the guard.
C17_FileMutualExclusion ==
    /\ [](Cardinality(Holders) <= 1)
    /\ [][/\ file' # file => Cardinality(Holders) = 1 /\ Holders' = {}
          /\ \A h \in Slots :
                /\ Load_read_to_end(h)
                       => Holders = {Activity("load", h, "held", <<>>, <<>>)}
                /\ Clear_read_to_end(h)
                       => Holders = {Activity("clear", h, "held", <<>>, <<>>)}
                /\ Clear_write_all(h) \/ Task_write_all(h)
                       => \E a \in lock : Holders = {a} /\ a.h = h /\ a \notin lock']_vars

\* C17 is exercised: a clear holds the guard with a non-empty log read into
\* its buffer, while a spawned task has still to get the guard
C17_Witness ==
    \E a \in lock :
        /\ a.who = "clear" /\ a.pc = "read" /\ a.buf # <<>>
        /\ Holders = {a}
        /\ tasks # <<>>

-----------------------------------------------------------------------------
(* Handles of one collection *)

\* a and b are two handles of the same collection
SameCollection(a, b) == a # b /\ Kind(a) = Kind(b) /\ id[a] = id[b]

\* the log f holds an insert record of handle b's collection for key k, with
\* the value b holds at k when b is a Map
InsertedInLog(f, b, k) ==
    \E j \in 1..Len(Records(f)) :
        LET e == Records(f)[j] IN
        /\ e.id = id[b] /\ e.key = SerU8(k)
        /\ IF Kind(b) = "map" THEN e.tag = 0 /\ e.value = SerU8(inner'[b][k])
                              ELSE e.tag = 2

\* C18 -- Per-handle independent state: of two handles of the same
\* collection, no step of a mutating operation of one (the call or its
\* durability task) changes what the other holds in memory, and a handle that
\* is opened holds only what insert records already appended to the log give
\* it: a mutation is seen by no handle but its own until a handle is opened
\* after its record was appended.
C18_HandlesIndependent ==
    [][\A a, b \in Slots :
          SameCollection(a, b)
              => /\ Mutates(a) => inner'[b] = inner[b]
                 /\ Open(b) => \A k \in DOMAIN inner'[b] : InsertedInLog(file, b, k)]_vars

\* C18 is exercised: two handles of one Map hold different values at the same
\* key, each call's record is in the log, and no task is pending
C18_Witness ==
    \E a, b \in Slots :
        /\ SameCollection(a, b) /\ Kind(a) = "map"
        /\ inner[a] = MapPut(EmptyMap, 1, 2)
        /\ inner[b] = MapPut(EmptyMap, 1, 1)
        /\ calls = 3 /\ tasks = <<>>
        /\ Records(file) = <<HashMapEntry(id[a], SerU8(1), SerU8(1)),
                             HashMapEntry(id[a], SerU8(1), SerU8(2))>>

\* C19 (as claimed) -- hash_map_with_config(name, config) opens the same
\* collection as hash_map(name): a handle opened by either on a name replays
\* from the log exactly what a handle opened by the other on that name replays.
C19_WithConfigSameCollection ==
    \A a, b \in Slots :
        /\ ctor[a] = "hash_map" /\ ctor[b] = "hash_map_with_config"
        /\ name[a] = name[b]
        => Replay(file, a) = Replay(file, b)

-----------------------------------------------------------------------------
(* Identifiers *)

\* the log f without the records that carry the CollectionId i
WithoutId(f, i) == SerializeAll(SelectSeq(Records(f), LAMBDA e : e.id # i))

\* C20 -- Identifier distinctness: to_raw_id gives two different names two
\* different ids, the handles of two different names carry different
\* CollectionIds, and the replay of the one applies none of the records of
\* the other: it replays the log as if those records were not there.
C20_IdsDistinct ==
    /\ \A m, n \in IdNames : m # n => to_raw_id(m) # to_raw_id(n)
    /\ \A a, b \in Slots :
          name[a] # name[b]
              => /\ id[a] # id[b]
                 /\ Replay(file, b) = Replay(WithoutId(file, id[a]), b)

\* C20 is exercised: one name is a prefix of the other, the log holds a record
\* of each, and each handle's collection replays its own value
C20_Witness ==
    \E a, b \in Slots :
        /\ name[a] = <<97>> /\ name[b] = <<97, 0>>
        /\ Kind(a) = "map" /\ Kind(b) = "map"
        /\ \E i, j \in 1..Len(Records(file)) :
              Records(file)[i].id = id[a] /\ Records(file)[j].id = id[b]
        /\ Replay(file, a) = Loaded(MapPut(EmptyMap, 1, 1))
        /\ Replay(file, b) = Loaded(MapPut(EmptyMap, 1, 2))

-----------------------------------------------------------------------------
(* The record codec *)

\* decoding the encoding of e yields e and consumes exactly its bytes
RoundTrip(e) ==
    deserialize_from(Serialize(e), 1)
        = [st |-> "ok", pos |-> Len(Serialize(e)) + 1, entry |-> e]

\* C21 -- Record codec round trip: for a record of any of the four variants
\* with any id, key and value payloads, decoding its encoding yields the
\* record itself, and the concatenation of the encodings of a sequence of
\* records decodes, one record after the other, to that sequence.
C21_CodecRoundTrip ==
    [][\A i \in 1..Len(tasks) :
          RunTask(i)
              => /\ \A j \in 1..Len(tasks[i].entries) : RoundTrip(tasks[i].entries[j])
                 /\ Records(file') = Records(file) \o tasks[i].entries
                 /\ SerializeAll(Records(file')) = file']_vars

\* C21 is exercised: a HashMapEntry with an empty id and a RemoveHashSetEntry
\* with an empty key, payloads holding tag-like and NUL bytes, were written
\* and are read back
C21_Witness ==
    /\ tasks = <<>>
    /\ Records(file) = <<HashMapEntry(<<>>, <<0>>, <<2, 0>>),
                         RemoveHashSetEntry(<<2, 0>>, <<>>)>>

-----------------------------------------------------------------------------
(* Replay of a damaged log *)

\* the state a collection of the given kind and id gets from the records rs,
\* applied in order to m
RECURSIVE Fold(_, _, _, _)
Fold(rs, kind, self_id, m) ==
    IF rs = <<>> THEN m
    ELSE LET e == Head(rs)
             own == e.id = self_id /\ e.tag \in (IF kind = "map" THEN {0, 1} ELSE {2, 3})
         IN  Fold(Tail(rs), kind, self_id,
                  IF ~own THEN m
                  ELSE IF e.tag = 0 THEN MapPut(m, e.key[1], e.value[1])
                  ELSE IF e.tag = 2 THEN MapPut(m, e.key[1], Unit)
                  ELSE MapDel(m, e.key[1]))

\* the offset of the first byte behind the complete records at the start of f
Boundary(f) == Len(SerializeAll(Records(f))) + 1

\* every complete record at the start of f is one that a call has written
Written(f) == \A j \in 1..Len(Records(f)) : Records(f)[j] \in ReplayEntries

\* f ends inside a record: behind its complete records stands a valid tag, and
\* reading the record that starts there runs out of input
TornTail(f) ==
    /\ Boundary(f) <= Len(f) /\ f[Boundary(f)] \in 0..3
    /\ deserialize_from(f, Boundary(f)).st = "eof"

\* C22 -- Replay error policy: an open of a log in which, behind complete
\* records that calls have written, a byte that is not a tag 0..3 stands where a record would start
\* fails with an error and gives no handle state; an open of a log that ends
\* inside a record that starts with a valid tag succeeds.
C22_ReplayErrorPolicy ==
    [][\A h \in Slots :
          Open(h) /\ Written(file)
              => /\ Boundary(file) <= Len(file) /\ file[Boundary(file)] \notin 0..3
                        => ret' = <<h, "open_err">> /\ inner'[h] = EmptyMap
                 /\ TornTail(file) => ret' = <<>>]_vars

\* C22 is exercised: the open of a log with an unknown tag between two
\* records has failed
C22_Witness ==
    \E h \in Slots :
        /\ Len(ret) = 2 /\ ret[1] = h /\ ret[2] = "open_err"
        /\ Len(Records(file)) = 1
        /\ Len(file) > Boundary(file) + 1
        /\ file[Boundary(file)] \in UnknownTags

\* C23 -- Torn-tail tolerance: cutting a log of complete records that calls
\* have written at an offset k leaves, as the records a scan reads, the longest prefix of the records
\* whose encoding ends at or before k, and an open of the cut log succeeds
\* with the state those records fold to.
C23_TornTailTolerance ==
    [][/\ \A k \in 0..Len(file) :
             Truncate(k) /\ SerializeAll(Records(file)) = file
                 => LET rs == Records(file)
                        n == Len(Records(file'))
                    IN  /\ n <= Len(rs) /\ Records(file') = SubSeq(rs, 1, n)
                        /\ Len(SerializeAll(SubSeq(rs, 1, n))) <= k
                        /\ n < Len(rs) => Len(SerializeAll(SubSeq(rs, 1, n + 1))) > k
       /\ \A h \in Slots :
             Open(h) /\ Written(file) /\ (Boundary(file) > Len(file) \/ TornTail(file))
                 => /\ ret' = <<>>
                    /\ inner'[h] = Fold(Records(file), Kind(h), id[h], EmptyMap)]_vars

\* C23 is exercised: a Map handle opened on a log cut inside its second
\* record holds the value of the first
C23_Witness ==
    \E h \in Slots :
        /\ Kind(h) = "map" /\ calls > 0 /\ ret = <<>>
        /\ Records(file) = <<HashMapEntry(id[h], SerU8(1), SerU8(1))>>
        /\ Len(file) > Boundary(file) + 8
        /\ TornTail(file)
        /\ inner[h] = MapPut(EmptyMap, 1, 1)

-----------------------------------------------------------------------------
(* Clear, again *)

\* the file that clear() of handle a leaves of the file f
ClearFile(a, f) ==
    IF Kind(a) = "map" THEN HashMap_clear_file(f, id[a]) ELSE HashSet_clear_file(f, id[a])

\* C24 -- Clear is idempotent on the file: a clear() that directly follows a
\* clear() of the same handle leaves the file as it is, and the file any
\* clear() leaves is one that a further clear() of the handle would rewrite
\* to itself.
C24_ClearIdempotent ==
    [][\A a \in Slots :
          Cleared(a)
              => /\ ClearFile(a, file') = file'
                 /\ ret = <<a, "cleared">> => file' = file]_vars

\* C24 is exercised: a clear has returned as the last of three calls, after
\* an insert through another collection's handle whose record is all the log
\* holds: the state two clears in a row lead to
C24_Witness ==
    \E a, b \in Slots :
        /\ ret = <<a, "cleared">> /\ calls = 3 /\ tasks = <<>>
        /\ OtherCollection(a, b) /\ inner[b] # EmptyMap /\ inner[a] = EmptyMap
        /\ Len(Records(file)) = 1 /\ Records(file)[1].id = id[b]

-----------------------------------------------------------------------------
(* Compaction *)

\* the entries a scan of f reads up to its first error
RECURSIVE CompactRecords(_, _)
CompactRecords(f, pos) ==
    LET r == HashMapDBEntry_deserialize_from(f, pos) IN
    IF r.st # "ok" THEN <<>> ELSE <<r.entry>> \o CompactRecords(f, r.pos)

\* compact_db() of handle h returns
Compacted(h) == \E o \in IterOrders(inner[h]) : ConcurrentHashMap_compact_db(h, o)

\* C25 -- Compaction result: when compact_db() of a handle returns, the log
\* is made of complete records, each an Insert of a key the handle holds with
\* the value it holds, one for each key and no Remove, and a fresh load of the
\* log gives the handle's in-memory state, which the compaction left as it was.
C25_CompactionResult ==
    [][\A h \in Slots :
          Compacted(h)
              => LET rs == CompactRecords(file', 1) IN
                 /\ HashMapDBEntry_serialize_all(rs) = file'
                 /\ Len(rs) = Cardinality(DOMAIN inner[h])
                 /\ \A j \in 1..Len(rs) :
                       /\ rs[j].tag = 0
                       /\ rs[j].key \in DOMAIN inner[h]
                       /\ rs[j].value = inner[h][rs[j].key]
                 /\ \A k \in DOMAIN inner[h] : \E j \in 1..Len(rs) : rs[j].key = k
                 /\ ConcurrentHashMap_load_from_file(file', 1, EmptyMap) = inner[h]
                 /\ inner' = inner]_vars

\* C25 is exercised: a log of two Inserts of one key was compacted to the one
\* live Insert
C25_Witness ==
    \E h \in Slots :
        /\ ret = <<h, "compacted">>
        /\ file # <<>> /\ Len(file) < 3 * (calls - 1)
        /\ CompactRecords(file, 1) = <<Insert(2, 2)>>
        /\ inner[h] = MapPut(EmptyMap, 2, 2)

\* the log f holds an Insert of value v at key k
HasInsert(f, k, v) ==
    \E j \in 1..Len(CompactRecords(f, 1)) : CompactRecords(f, 1)[j] = Insert(k, v)

\* C26 (as claimed) -- Compaction preserves other collections: when one
\* handle compacts the shared file, every Insert record in the log that
\* another handle holds in its memory is still in the log afterwards, and a
\* fresh load through that other handle's Database gives the same state as
\* before the compaction.
C26_CompactionKeepsOthers ==
    [][\A a \in Slots :
          Compacted(a)
              => /\ \A b \in Slots \ {a} : \A k \in DOMAIN inner[b] :
                       HasInsert(file, k, inner[b][k]) => HasInsert(file', k, inner[b][k])
                 /\ ConcurrentHashMap_load_from_file(file', 1, EmptyMap)
                       = ConcurrentHashMap_load_from_file(file, 1, EmptyMap)]_vars

-----------------------------------------------------------------------------
(* Batches, again *)

\* C27 (as claimed) -- remove_batch record count: the task of
\* remove_batch(keys), which appends its entries contiguously when it runs,
\* carries exactly one RemoveHashMapEntry for each key of the input, in input
\* order, whether or not the key was present and however often it occurs.
C27_RemoveBatchRecordCount ==
    [][\A h \in Slots, ks \in Batches(Keys) :
          HashMap_remove_batch(h, ks)
              => /\ Len(Spawned.entries) = Len(ks)
                 /\ \A j \in 1..Len(Spawned.entries) :
                       j <= Len(ks)
                           => Spawned.entries[j] = RemoveHashMapEntry(id[h], SerU8(ks[j]))]_vars

\* the value at the key of the i-th pair of es just before that pair is
\* applied to m, the pairs before it having been applied
ValueBefore(m, es, i) ==
    IF \E j \in 1..(i - 1) : es[j][1] = es[i][1]
    THEN <<es[CHOOSE j \in 1..(i - 1) :
                 es[j][1] = es[i][1] /\ \A l \in (j + 1)..(i - 1) : es[l][1] # es[i][1]][2]>>
    ELSE IF es[i][1] \in DOMAIN m THEN <<m[es[i][1]]>> ELSE <<>>

\* the positions of ks at which a key that m holds occurs for the first time
FirstPresent(m, ks) ==
    {i \in 1..Len(ks) : ks[i] \in DOMAIN m /\ \A j \in 1..(i - 1) : ks[j] # ks[i]}

C29_PoisonedLockIsErrorValue ==
    [][Poisoned
          => /\ \A h \in Slots :
                   Open_poisoned(h) \/ Clear_poisoned(h)
                       => ret' = <<h, "MutexLockError">>
             /\ \A i \in 1..Len(tasks) :
                   FailTask(i, "MutexLockError", 0)
                       => ret' = <<tasks[i].h, "MutexLockError">>
             /\ Database_flush => ret' = <<0, "MutexLockError">>
             /\ ret' # <<0, "panic">>]_vars

\* C30: when clear of a collection returns Ok with no task pending, no record
\* of the log carries the id of that collection.
C30_ClearLeavesNoOwnRecord ==
    [][\A a \in Slots :
          Cleared(a) /\ tasks = <<>>
              => \A j \in 1..Len(Records(file')) : Records(file')[j].id # id[a]]_vars

-----------------------------------------------------------------------------
(* Appends, clears and compactions that meet *)

\* the sequence s is the beginning of the sequence t
IsPrefix(s, t) == Len(s) <= Len(t) /\ SubSeq(t, 1, Len(s)) = s

\* C31 -- Append-only under normal operation: a durability task that runs,
\* whichever of the pending ones it is, leaves the bytes and the records that
\* were in the log as a prefix of the log and puts its own records after them.
C31_AppendOnly ==
    [][\A i \in 1..Len(tasks) :
          RunTask(i)
              => /\ IsPrefix(file, file')
                 /\ IsPrefix(Records(file), Records(file'))
                 /\ Records(file') = Records(file) \o tasks[i].entries]_vars

\* C31 is exercised: a task has run on a log that held records already (three
\* records are more than one batch), while another task is still pending
C31_Witness ==
    /\ Len(ret) = 3 /\ ret[2] = "ok"
    /\ Len(Records(file)) = 3
    /\ tasks # <<>>

\* C32 -- clear of hashmap.rs and hashset.rs holds the guard from its read of
\* the log to the flush of the rewritten log: the log does not change while a
\* clear has it in its buffer, the rewrite keeps every record of another id
\* that is in the log, and a task that had to wait appends after the rewrite.
C32_ClearHoldsLock ==
    /\ [](\A a \in lock : a.who = "clear" /\ a.pc = "read" => a.buf = file)
    /\ [][\A h \in Slots :
             /\ Clear_write_all(h)
                    => OtherIds(file', id[h]) = OtherIds(file, id[h])
             /\ Task_write_all(h)
                    => \E a \in lock :
                          /\ a.who = "task" /\ a.h = h /\ a \notin lock'
                          /\ Records(file') = Records(file) \o a.task[1].entries]_vars

\* C32 is exercised: a clear has returned while the task of another
\* collection was waiting, and the log holds the record that collection
\* appended before
C32_Witness ==
    \E a \in Slots :
        /\ ret = <<a, "cleared">>
        /\ Len(tasks) = 1 /\ tasks[1].h # a
        /\ Len(Records(file)) = 1 /\ Records(file)[1].id # id[a]

\* C33 -- the clear of structures/mod.rs is thread-safe: when the log has
\* grown between the clear's read and its rewrite, the records of other ids
\* that are in the log are in it when the clear returns.
C33_ModClearThreadSafe ==
    [][\A h \in Slots :
          ModClear_copy(h)
              => \A a \in lock :
                    a.who = "mod_rewrite" /\ a.h = h /\ a.buf # file
                        => OtherIds(file', id[h]) = OtherIds(file, id[h])]_vars

\* C34 -- Memory/log convergence without awaiting: when the mutating
\* operations issued on a handle without awaiting in between have all
\* resolved Ok, the state replayed from the log is the handle's memory.
C34_ConvergenceWithoutAwait ==
    \A h \in Slots :
        tasks = <<>> => Replay(file, h) = Loaded(inner[h])

\* C35 -- clear versus in-flight writes of the same collection: once a clear
\* called while a task of the collection was pending has returned and the
\* tasks have resolved, the state replayed from the log is the handle's
\* memory.
C35_ClearWithWritesInFlight ==
    \A h \in Slots :
        tasks = <<>> => Replay(file, h) = Loaded(inner[h])

\* C36 -- Writes after a torn tail survive: when a task appends its records
\* to a log that ends inside a record, behind complete records that calls
\* have written, an open of the log afterwards succeeds with the fold of the
\* complete records followed by the task's records.
C36_WriteAfterTornTail ==
    [][\A i \in 1..Len(tasks) :
          RunTask(i) /\ TornTail(file) /\ Written(file)
              => \A h \in Slots :
                    Replay(file', h)
                        = Loaded(Fold(Records(file) \o tasks[i].entries,
                                      Kind(h), id[h], EmptyMap))]_vars

\* C37 -- Compaction versus concurrent insert: when the compact_db and the
\* inserts on one ConcurrentHashMap have all returned, the log holds an
\* Insert record for every pair the map holds, and a load of the log gives
\* the map's in-memory state.
C37_CompactionVersusInsert ==
    lock = {}
        => /\ \A k \in DOMAIN inner[1] : HasInsert(file, k, inner[1][k])
           /\ ConcurrentHashMap_load_from_file(file, 1, EmptyMap) = inner[1]

====
